---- MODULE Spec2Model ----
(***************************************************************************)
(* The RAG orchestration layer of src/Rag: CompleteRAGSystem (construction, *)
(* query, batch_query), the DeepSeek generation provider, the document      *)
(* loader's fallback, the Chroma-backed VectorStoreManager, and the         *)
(* test_complete_rag_system driver of src/Rag/main.py.                      *)
(*                                                                         *)
(* Documents and questions are identified by small integers, strings the    *)
(* program compares or returns are short ASCII tokens, and                  *)
(* RAGResult.retrieval_time / total_time (wall-clock readings no branch     *)
(* depends on) are not carried.                                             *)
(***************************************************************************)
EXTENDS Integers, Sequences, FiniteSets, TLC

(* ------------------------------ bounds -------------------------------- *)
\* Largest number of .txt documents in the document directory.
MaxDocs == 2
\* Questions a library caller may ask are 1..MaxQ.
MaxQ == 2
\* A library caller passes k in 1..MaxK to query().
MaxK == 2
\* Longest question list a library caller passes to batch_query().
MaxBatch == 2
\* Most items a directly used store handle lets the collection grow to.
MaxItems == 6
\* Longest vector handed to SimilarityCalculator.
MaxDim == 2
\* Calls of the operations that ask the LLM a program makes on one EnglishLearningAgent.
MaxCalls == 2
\* Calls of get_user_profile and clear_user_data it makes.
MaxQueries == 2
\* Largest number of agent calls waiting for the LLM at one time.
MaxPending == 2
\* Largest number of files of one kind below the top level of the document directory.
MaxSub == 1
MaxLines == 4
MaxErrors == 1
MaxFindingLines == 6

(* ------------------------- program constants -------------------------- *)
\* RAGConfig.retrieval_k
RetrievalK == 3
\* len(create_test_documents())
NumTestDocs == 5

None == "None"

\* answer = "LLM未配置，无法生成答案"
SentinelNoLLM == "LLM_NOT_CONFIGURED"
\* The sentinel the specification names for "no relevant documents found";
\* no statement of query() assigns it.
SentinelNoDocs == "NO_RELEVANT_DOCUMENTS"
\* f"API调用失败: {str(e)}" for a connection error e.
ApiFailure == "API_CALL_FAILED"
\* Contents the chat model may return: one that holds the word "成功", one
\* that does not.
Replies == {"REPLY_WITH_SUCCESS_WORD", "REPLY_OTHER"}

\* RAGConfig.llm_provider values a caller may configure.
Providers == {"deepseek", "DeepSeek", "openai"}

\* test_questions of test_complete_rag_system
TestQuestions == <<1, 2, 3>>

VARIABLES
    caller,            \* "library": a program using CompleteRAGSystem; "main": test_complete_rag_system
    apiKey,            \* DEEPSEEK_API_KEY in os.environ: "unset", "empty", "set"
    envFile,           \* the .env file of the project root: [exists, lines, decodable]
    dotenvInstalled,   \* python-dotenv can be imported
    modelLoads,        \* SentenceTransformer(model_name) returns a model (cached, or the hub answers)
    netUp,             \* the chat API is reachable now
    provider,          \* config.llm_provider
    dataDir,           \* ./data/sample_documents: [exists, txt, sub, other, otherSub, bad]
    persistDirExists,  \* ./test_sentence_transformers_store exists
    collection,        \* the persisted Chroma collection: documents in insertion order
    pc,                \* position of _initialize_components in StepOrder
    error,             \* the exception that left __init__, or None
    embeddings,        \* self.embeddings is set
    document_loader,   \* self.document_loader is set
    vector_store_manager, \* self.vector_store_manager is set
    vector_store,      \* vector_store_manager.vector_store: None or "chroma"
    llm,               \* self.llm: None or "deepseek_client"
    connTest,          \* history: outcome of step 4 ("none", "passed", "failed", "skipped")
    createdDocs,       \* history: the documents handed to create_vector_store
    lastOp,            \* history: the last handler called ("none", "query", "batch")
    batchInput,        \* history: the questions of the last handler call
    batchActive,       \* batch_query is inside its loop
    results,           \* the RAGResults of the last handler call, in append order
    calls,             \* history: per query() call, what it saw and did
    events,            \* history: retrieval / generation steps of the last handler call
    testPc,            \* position of test_complete_rag_system
    testReturn,        \* its return value: "pending", "success", "failure"
    priorStore,        \* the persist directory as earlier runs left it: [exists, items]
    mgrOp,             \* history: the last VectorStoreManager method called
    mgrError,          \* the exception that method raised, or None
    mgrResult,         \* what it returned: [kind, items, count]
    handleHist,        \* history of the handle: "fresh", "live", "deleted", "orphaned"
    loaderOut,         \* the last load_all_documents() call: [called, docs]
    simOp,             \* the last SimilarityCalculator function called
    simA,              \* its arguments
    simB,
    simOut,            \* its outcome: [kind, num, den]
    mode,              \* main.py --mode: "retrieval", "complete", "both" ("na": main.py not run)
    cliPc,             \* position of main(): "retrieval", "complete", "in_complete", "exit", "done"
    success,           \* the local variable success of main()
    retrievalReturn,   \* test_sentence_transformers_rag: "pending", "skipped", "success", "failure"
    exitCode,          \* the argument of sys.exit, or None
    console,           \* sys.stdout.encoding of the process running the agent
    user_sessions,     \* EnglishLearningAgent.user_sessions: user -> stored entry
    agentOp,           \* history: the last agent method called
    agentUser,         \* its user_id
    agentOut,          \* how it ended: [kind, msg, fallback, llm]
    agentCalls,        \* number of calls made of the operations that ask the LLM
    agentQueries,      \* number of calls made of get_user_profile and clear_user_data
    clearLog,          \* history: the last clear_user_data call: [user, deleted, kept]
    agentPending,      \* the calls suspended at `await safe_api_call(...)`: [op, user] -> how many
    wfPc,              \* TechLearningWorkflow: "run", the node to execute, "END", "returned" ("na": not run)
    technology,        \* the technology argument of run()
    experience_level,  \* the experience_level argument of run()
    preferences,       \* the preferences argument of run() is a non-empty dict
    wfState,           \* the WorkflowState: [technology, experience_level, preferences, research_results, learning_plan, error, status]
    wfCalls,           \* history: the agent methods the nodes called
    wfTrace,           \* history: the nodes executed, with the status and error each returned
    wfResult,          \* what run() returned: [status, error]
    rPc,               \* research assistant: the node to execute, "END", "raised" ("na": not run)
    rState,            \* the ResearchState, lists held by their lengths
    rSteps             \* state["completed_steps"]

vars == <<caller, apiKey, envFile, dotenvInstalled, modelLoads, netUp, provider, dataDir, persistDirExists,
          collection, pc, error, embeddings, document_loader,
          vector_store_manager, vector_store, llm, connTest, createdDocs,
          lastOp, batchInput, batchActive, results, calls, events,
          testPc, testReturn, priorStore, mgrOp, mgrError, mgrResult,
          handleHist, loaderOut, simOp, simA, simB, simOut,
          mode, cliPc, success, retrievalReturn, exitCode,
          console, user_sessions, agentOp, agentUser, agentOut, agentCalls,
          agentQueries, clearLog, agentPending,
          wfPc, technology, experience_level, preferences, wfState, wfCalls,
          wfTrace, wfResult, rPc, rState, rSteps>>

\* What no step of a run changes: who runs, the configuration, the files found.
procVars == <<caller, provider, priorStore, envFile, dotenvInstalled, modelLoads>>
envVars == <<procVars, apiKey>>

\* os.getenv('DEEPSEEK_API_KEY') is non-empty
apiKeySet == apiKey = "set"
mgrVars == <<mgrOp, mgrError, mgrResult, handleHist>>
simVars == <<simOp, simA, simB, simOut>>
cliVars == <<mode, cliPc, success, retrievalReturn, exitCode>>
\* State of the programs beside the one a specification runs.
agentVars == <<console, user_sessions, agentOp, agentUser, agentOut, agentCalls,
               agentQueries, clearLog, agentPending>>
wfVars == <<wfPc, technology, experience_level, preferences, wfState, wfCalls, wfTrace,
            wfResult>>
researchVars == <<rPc, rState, rSteps>>
graphVars == <<wfVars, researchVars>>
auxVars == <<cliVars, agentVars, graphVars>>
objVars == <<embeddings, document_loader, vector_store_manager, llm, connTest>>
storeVars == <<persistDirExists, collection, vector_store, createdDocs>>
callVars == <<lastOp, batchInput, batchActive, results, calls, events>>
testVars == <<testPc, testReturn>>
\* Everything the RAG programs own.
ragVars == <<envVars, mgrVars, loaderOut, simVars, netUp, dataDir, storeVars, pc, error,
             objVars, callVars, testVars>>

(* --------------------------- pure helpers ----------------------------- *)
Min(a, b) == IF a < b THEN a ELSE b

\* str.lower() on the provider names.
Lower(s) == IF s = "DeepSeek" THEN "deepseek" ELSE s

\* "测试成功" in s or "成功" in s
ContainsSuccessWord(s) == s = "REPLY_WITH_SUCCESS_WORD"

(* --------------------------- DocumentLoader --------------------------- *)
TextDocs(n) == [i \in 1..n |-> i]
OtherDocs(n) == [i \in 1..n |-> 10 + i]

CreateTestDocuments == [i \in 1..NumTestDocs |-> 100 + i]

\* A directory that does not exist (and so holds no file).
NoDirectory ==
    [exists |-> FALSE, txt |-> 0, sub |-> 0, other |-> 0, otherSub |-> 0, bad |-> FALSE]

\* The .txt files DirectoryLoader(directory, glob=glob_pattern) matches:
\* "**/*.txt" the top-level files and those in subdirectories, "*.txt" the
\* top-level files only.
TextFiles(dir, glob_pattern) ==
    IF glob_pattern = "**/*.txt" THEN dir.txt + dir.sub ELSE dir.txt

\* The PDF, Markdown, Word and CSV files the loaders' patterns match, taken
\* together: recursive for the default patterns ("**/*.pdf", ...), top-level
\* for "*.pdf", ...
OtherFiles(dir, recursive) ==
    IF recursive THEN dir.other + dir.otherSub ELSE dir.other

\* load_text_documents(directory, glob_pattern)
LoadTextDocumentsGlob(dir, glob_pattern) ==
    IF ~dir.exists THEN <<>> ELSE TextDocs(TextFiles(dir, glob_pattern))

\* load_text_documents() with its default glob_pattern "**/*.txt"
LoadTextDocuments(dir) == LoadTextDocumentsGlob(dir, "**/*.txt")

\* DirectoryLoader(...).load() is built without silent_errors: the first file
\* it cannot read or decode ends load_text_documents with that exception.
\* dir.bad: a top-level .txt file cannot be read.
LoadTextRaises(dir) == dir.exists /\ dir.bad

\* load_pdf_documents, load_markdown_documents, load_word_documents and
\* load_csv_documents called with (directory, glob_pattern), taken together.
LoadOtherDocumentsGlob(dir, recursive) ==
    IF ~dir.exists THEN <<>> ELSE OtherDocs(OtherFiles(dir, recursive))

\* The same four loaders with their default patterns.
LoadOtherDocuments(dir) == LoadOtherDocumentsGlob(dir, TRUE)

\* load_all_documents passes each loader the top-level pattern of its type
\* ("*.txt", "*.pdf", "*.md", "*.docx", "*.csv"): files in subdirectories
\* are not loaded. One try/except per file type: a type whose loader raises
\* contributes nothing.
LoadAllDocuments(dir) ==
    (IF LoadTextRaises(dir) THEN <<>> ELSE LoadTextDocumentsGlob(dir, "*.txt"))
        \o LoadOtherDocumentsGlob(dir, FALSE)

(* ------------------------- VectorStoreManager ------------------------- *)
\* The store's native score of document d for query q (Chroma returns a
\* distance: smaller is closer).
Distance(q, d) == (q * 3 + d * 7) % 5

RECURSIVE InsertByScore(_, _)
InsertByScore(s, x) ==
    IF s = <<>> THEN <<x>>
    ELSE IF x.score < Head(s).score THEN <<x>> \o s
    ELSE <<Head(s)>> \o InsertByScore(Tail(s), x)

RECURSIVE Ranked(_, _)
Ranked(coll, q) ==
    IF coll = <<>> THEN <<>>
    ELSE LET n == Len(coll)
         IN InsertByScore(Ranked(SubSeq(coll, 1, n - 1), q),
                          [doc |-> coll[n], score |-> Distance(q, coll[n])])

\* vector_store.similarity_search_with_score(query, k=k) on an initialized store.
SearchWithScores(coll, q, k) ==
    LET r == Ranked(coll, q)
    IN SubSeq(r, 1, Min(k, Len(r)))

\* Chroma.from_documents(documents, persist_directory): adds the documents to
\* the collection persisted under the directory.
CreateVectorStore(coll, docs) == coll \o docs

\* self.vector_store.delete_all(): a store object that offers the method
\* empties its collection; langchain's Chroma wrapper has no such method, and
\* the call then raises AttributeError.
DeleteAllOutcomes == {"emptied", "AttributeError"}

DeleteAll(coll, out) == IF out = "emptied" THEN <<>> ELSE coll

\* if self.vector_store is None: raise ValueError("向量存储未初始化...")
SearchNeverRaises(vs) == FALSE

SearchRaises(vs) == vs = None

\* if not Path(self.persist_directory).exists(): raise FileNotFoundError(...)
LoadRaises(dirExists) == ~dirExists

\* load_existing_store raises before it assigns self.vector_store.
HandleAssignedBeforeCheck(vs) == "chroma"

HandleAfterFailedLoad(vs) == vs

\* The documents of (document, score) pairs.
DocsOf(scored) == [i \in 1..Len(scored) |-> scored[i].doc]

(* ------------------------ SimilarityCalculator ------------------------ *)
\* Vectors are lists of numbers; the components tried are -1, 0 and 1.
Components == {-1, 0, 1}
Vectors == UNION {[1..n -> Components] : n \in 0..MaxDim}

Abs(x) == IF x < 0 THEN -x ELSE x

RECURSIVE SumSeq(_)
SumSeq(s) == IF s = <<>> THEN 0 ELSE Head(s) + SumSeq(Tail(s))

\* np.dot on two 1-D arrays is defined for equal lengths only.
DotAligned(a, b) == Len(a) = Len(b)

Dot(a, b) == SumSeq([i \in 1..Len(a) |-> a[i] * b[i]])

NormSq(a) == Dot(a, a)

\* a - b on two 1-D arrays: numpy stretches an array of length 1 to the
\* length of the other, and refuses any other pair of differing lengths.
Broadcastable(a, b) == Len(a) = Len(b) \/ Len(a) = 1 \/ Len(b) = 1

Subtract(a, b) ==
    LET n == IF Len(a) = 1 THEN Len(b) ELSE Len(a)
        At(v, i) == IF Len(v) = 1 THEN v[1] ELSE v[i]
    IN [i \in 1..n |-> At(a, i) - At(b, i)]

\* What a call produces: kind is "number", "nan" or the exception raised.
\* A number is num / sqrt(den), or sqrt(num) for the euclidean distance.
Raised(exc) == [kind |-> exc, num |-> 0, den |-> 1]
Number(n, d) == [kind |-> "number", num |-> n, den |-> d]

\* np.dot(a, b) / (np.linalg.norm(a) * np.linalg.norm(b)): with a zero norm
\* the float64 division is 0/0, which numpy evaluates to nan.
CosineSimilarity(a, b) ==
    IF ~DotAligned(a, b) THEN Raised("ValueError")
    ELSE IF NormSq(a) * NormSq(b) = 0 THEN [kind |-> "nan", num |-> 0, den |-> 0]
    ELSE Number(Dot(a, b), NormSq(a) * NormSq(b))

\* np.linalg.norm(a - b)
EuclideanDistance(a, b) ==
    IF ~Broadcastable(a, b) THEN Raised("ValueError")
    ELSE Number(NormSq(Subtract(a, b)), 1)

\* np.sum(np.abs(a - b))
ManhattanDistance(a, b) ==
    IF ~Broadcastable(a, b) THEN Raised("ValueError")
    ELSE LET d == Subtract(a, b)
         IN Number(SumSeq([i \in 1..Len(d) |-> Abs(d[i])]), 1)

\* np.dot(a, b)
DotProduct(a, b) ==
    IF ~DotAligned(a, b) THEN Raised("ValueError") ELSE Number(Dot(a, b), 1)

(* ----------------------------- DeepSeekLLM ---------------------------- *)
\* DeepSeekLLM.__init__ raises ValueError when no key is given or set.
DeepSeekInitDefaultsKey(keySet) == FALSE

DeepSeekInitRaises(keySet) == ~keySet

\* chat(): try ... except Exception as e: return f"API调用失败: {str(e)}"
ChatPropagatesError(up, reply) == IF up THEN reply ELSE "APIConnectionError"

Chat(up, reply) == IF up THEN reply ELSE ApiFailure

\* generate() wraps chat(), which has already turned every error into a string.
Generate(up, reply) == Chat(up, reply)

GenerateRagResponse(up, reply) == Generate(up, reply)

TestConnection(up, reply) == ContainsSuccessWord(Generate(up, reply))

(* -------------------------- CompleteRAGSystem ------------------------- *)
\* The statement order of _initialize_components.
StepOrderStoreFirst ==
    <<"embeddings", "document_loader", "vector_store_manager", "store", "llm">>

StepOrder ==
    <<"embeddings", "document_loader", "vector_store_manager", "llm", "store">>

\* DEEPSEEK_API_KEY in the environment of the process: not there, there
\* with the empty string, there with a value.
KeyStates == {"unset", "empty", "set"}

\* No .env file in the project root.
NoFile == [exists |-> FALSE, lines |-> <<>>, decodable |-> TRUE]

\* What the .env file of the project root may be: absent, or a file of some
\* lines that is UTF-8 to its end or not. The lines that matter to the
\* loaders: DEEPSEEK_API_KEY with a value ("key"), DEEPSEEK_API_KEY= with
\* nothing after it ("empty"), a line that starts with "=" and so names no
\* variable ("noname"). Of a file that is not UTF-8, `lines` are the lines
\* read before the read that meets the undecodable bytes.
EnvFiles ==
    {NoFile} \cup
    {[exists |-> TRUE, lines |-> l, decodable |-> d] :
        l \in {<<>>, <<"key">>, <<"empty">>, <<"noname">>, <<"key", "empty">>,
               <<"key", "noname">>, <<"noname", "key">>},
        d \in BOOLEAN}

\* A run that never reads a .env file.
NoEnvFile == envFile = NoFile /\ dotenvInstalled = TRUE

\* The key after a line that names it.
LineKey(line) == IF line = "key" THEN "set" ELSE "empty"

\* dotenv_values: the value the file gives the key, the last line that
\* names it winning; a line that names no variable is skipped.
RECURSIVE FileKey(_)
FileKey(lines) ==
    IF lines = <<>> THEN "unset"
    ELSE LET last == lines[Len(lines)]
         IN IF last = "noname" THEN FileKey(SubSeq(lines, 1, Len(lines) - 1))
            ELSE LineKey(last)

\* load_dotenv(dotenv_path=env_path): the file is read whole, which raises
\* when it is not UTF-8; a variable the process has, empty or not, keeps its
\* value; one it lacks gets the value of the file.
LoadDotenv(key, file) ==
    IF ~file.exists THEN [raised |-> FALSE, key |-> key]
    ELSE IF ~file.decodable THEN [raised |-> TRUE, key |-> key]
    ELSE [raised |-> FALSE,
          key |-> IF key = "unset" THEN FileKey(file.lines) ELSE key]

\* for line in f: ... os.environ[key] = value, line by line: a line that
\* names no variable raises OSError with the lines before it applied.
RECURSIVE ApplyLines(_, _)
ApplyLines(key, lines) ==
    IF lines = <<>> THEN [raised |-> FALSE, key |-> key]
    ELSE IF Head(lines) = "noname" THEN [raised |-> TRUE, key |-> key]
    ELSE ApplyLines(LineKey(Head(lines)), Tail(lines))

\* _load_env_manually: the lines are applied as they are read; the read that
\* meets undecodable bytes raises UnicodeDecodeError, with the lines of the
\* earlier reads applied.
LoadEnvManually(key, file) ==
    IF ~file.exists THEN [raised |-> FALSE, key |-> key]
    ELSE LET applied == ApplyLines(key, file.lines)
         IN [raised |-> applied.raised \/ ~file.decodable, key |-> applied.key]

\* EnvironmentManager._load_environment: how it ends and what the key is then
LoadEnvironment(key, file, dotenv) ==
    IF dotenv THEN LoadDotenv(key, file) ELSE LoadEnvManually(key, file)

Constructed == pc = Len(StepOrder) + 1
Ready == Constructed /\ error = None

\* self.llm after "if not self.llm.test_connection(): self.llm = None"
LLMKeptAfterTest(ok) == "deepseek_client"

LLMAfterTest(ok) == IF ok THEN "deepseek_client" ELSE None

\* if self.llm and retrieved_docs_with_scores
QueryGeneratesIgnoringRetrieval(llmv, retrieved) == llmv # None

QueryGenerates(llmv, retrieved) == llmv # None /\ retrieved # <<>>

\* The sources list comprehension of query(): one record per retrieved
\* (doc, score) pair, in the order retrieval returned them.
SourcesDroppingLast(retrieved) ==
    [j \in 1..(Len(retrieved) - 1) |->
        [content |-> retrieved[j].doc, similarity |-> retrieved[j].score]]

Sources(retrieved) ==
    [j \in 1..Len(retrieved) |->
        [content |-> retrieved[j].doc, similarity |-> retrieved[j].score]]

\* One call of query(): the RAGResult, what the call saw, and its steps.
\* idx is the call's position in the handler that makes it.
RunQuery(llmv, coll, q, k, up, reply, idx) ==
    LET retrieved == SearchWithScores(coll, q, k)
        gen == QueryGenerates(llmv, retrieved)
        answer == IF gen THEN GenerateRagResponse(up, reply) ELSE SentinelNoLLM
    IN [result |-> [query |-> q,
                    answer |-> answer,
                    sources |-> Sources(retrieved),
                    generation_time |-> IF gen THEN 1 ELSE 0,
                    used_context |-> gen],
        call |-> [llm_enabled |-> llmv # None,
                  retrieved |-> retrieved,
                  up |-> up,
                  llm_calls |-> IF gen THEN 1 ELSE 0],
        events |-> <<[op |-> "retrieve", idx |-> idx]>> \o
                   (IF gen THEN <<[op |-> "generate", idx |-> idx]>> ELSE <<>>)]

\* for i, question in enumerate(questions, 1): the question of iteration i.
BatchQuestionReversed(questions, i) == questions[Len(questions) + 1 - i]

BatchQuestion(questions, i) == questions[i]

(* ------------------------------- Init --------------------------------- *)
NoResult == [kind |-> "none", items |-> <<>>, count |-> 0]
NoOutcome == [kind |-> "none", num |-> 0, den |-> 1]

\* main.py is not the program run.
CliIdle ==
    /\ mode = "na"
    /\ cliPc = "na"
    /\ success = TRUE
    /\ retrievalReturn = "pending"
    /\ exitCode = None

\* user_ids a program passes to the agent.
Users == {"u1", "u2"}

\* No entry under a user_id, and the entry a first store creates ({}).
NoData ==
    [present |-> FALSE, assessment |-> FALSE, learning_plan |-> FALSE,
     vocabulary_sessions |-> 0, conversation_sessions |-> 0, grammar_sessions |-> 0,
     progress_report |-> FALSE]

NoAgentOut == [kind |-> "none", msg |-> None, fallback |-> FALSE, llm |-> "not_called"]

\* The coroutines of the agent: each suspends once, at its LLM call.
AsyncOps ==
    {"create_learning_plan", "assess_level", "learn_vocabulary", "start_conversation",
     "practice_grammar", "evaluate_progress", "interactive_conversation"}

PendingCalls == [op : AsyncOps, user : Users]
\* No clear_user_data call yet.
NoClear == [user |-> None, deleted |-> FALSE, kept |-> {}]
NoPending == [c \in PendingCalls |-> 0]

\* self.user_sessions = {} and no call made.
AgentFresh ==
    /\ user_sessions = [u \in Users |-> NoData]
    /\ agentOp = "none"
    /\ agentUser = None
    /\ agentOut = NoAgentOut
    /\ agentCalls = 0
    /\ agentQueries = 0
    /\ clearLog = NoClear
    /\ agentPending = NoPending

\* No EnglishLearningAgent is part of the program run.
AgentIdle == console = "utf8" /\ AgentFresh

\* WorkflowState before run() builds initial_state.
NoWfState ==
    [technology |-> "", experience_level |-> "", preferences |-> FALSE,
     research_results |-> FALSE, learning_plan |-> FALSE, error |-> None,
     status |-> "none"]

NoWfResult == [status |-> "none", error |-> None]

\* No TechLearningWorkflow is part of the program run.
WfIdle ==
    /\ wfPc = "na"
    /\ technology = ""
    /\ experience_level = ""
    /\ preferences = FALSE
    /\ wfState = NoWfState
    /\ wfCalls = {}
    /\ wfTrace = <<>>
    /\ wfResult = NoWfResult

\* initial_state of run_research_assistant, lists held by their lengths and
\* quality_score as the fraction num / den.
NoCredibility ==
    [overall_num |-> 0, overall_den |-> 1, source_diversity |-> 0, information_depth |-> 0]

InitialResearchState(depth) ==
    [research_depth |-> depth, search_queries |-> 0, search_results |-> 0,
     search_errors |-> 0, research_notes |-> 0, key_findings |-> 0,
     summary_long |-> FALSE, credibility_scores |-> NoCredibility,
     verification_status |-> FALSE, quality_num |-> 0, quality_den |-> 1,
     improvement_suggestions |-> {}, retry_count |-> 0, max_retries |-> 2,
     final_report |-> FALSE]

\* No research assistant is part of the program run.
ResearchIdle ==
    /\ rPc = "na"
    /\ rState = InitialResearchState("standard")
    /\ rSteps = <<>>

GraphIdle == WfIdle /\ ResearchIdle

\* Nothing constructed, nothing called yet; the persist directory is as
\* earlier runs left it.
Quiescent ==
    /\ persistDirExists = priorStore.exists
    /\ collection = priorStore.items
    /\ pc = 1
    /\ error = None
    /\ embeddings = FALSE
    /\ document_loader = FALSE
    /\ vector_store_manager = FALSE
    /\ vector_store = None
    /\ llm = None
    /\ connTest = "none"
    /\ createdDocs = <<>>
    /\ lastOp = "none"
    /\ batchInput = <<>>
    /\ batchActive = FALSE
    /\ results = <<>>
    /\ calls = <<>>
    /\ events = <<>>
    /\ testReturn = "pending"
    /\ mgrOp = "none"
    /\ mgrError = None
    /\ mgrResult = NoResult
    /\ handleHist = "fresh"
    /\ loaderOut = [called |-> FALSE, docs |-> <<>>]
    /\ simOp = "none"
    /\ simOut = NoOutcome

Init ==
    /\ caller \in {"library", "main"}
    /\ apiKey \in (IF caller = "main" THEN KeyStates ELSE {"unset", "set"})
    /\ envFile \in (IF caller = "main" THEN EnvFiles ELSE {NoFile})
    /\ dotenvInstalled \in (IF caller = "main" THEN BOOLEAN ELSE {TRUE})
    /\ modelLoads \in BOOLEAN
    /\ netUp \in BOOLEAN
    /\ provider \in (IF caller = "main" THEN {"deepseek"} ELSE Providers)
    /\ dataDir \in {NoDirectory} \cup
                   [exists : {TRUE}, txt : 0..MaxDocs, sub : {0}, other : 0..1, otherSub : {0},
                    bad : {FALSE}]
    /\ priorStore = [exists |-> FALSE, items |-> <<>>]
    /\ simA = <<>>
    /\ simB = <<>>
    /\ CliIdle
    /\ AgentIdle
    /\ Quiescent
    /\ GraphIdle
    /\ testPc = IF caller = "main" THEN "start" ELSE "na"

(* ----------------------------- construction --------------------------- *)
Constructing(step) ==
    /\ caller = "library" \/ testPc = "construct"
    /\ error = None
    /\ pc <= Len(StepOrder)
    /\ StepOrder[pc] = step

\* self.embeddings = SentenceTransformersEmbeddings(...): _load_model raises
\* what SentenceTransformer(model_name) raises, and the attribute is not set.
InitEmbeddings ==
    /\ Constructing("embeddings")
    /\ IF modelLoads
       THEN /\ embeddings' = TRUE
            /\ pc' = pc + 1
            /\ UNCHANGED error
       ELSE /\ error' = "OSError"
            /\ UNCHANGED <<embeddings, pc>>
    /\ UNCHANGED <<envVars, auxVars, mgrVars, loaderOut, simVars, netUp, dataDir, storeVars, document_loader,
                   vector_store_manager, llm, connTest, callVars, testVars>>

InitDocumentLoader ==
    /\ Constructing("document_loader")
    /\ document_loader' = TRUE
    /\ pc' = pc + 1
    /\ UNCHANGED <<envVars, auxVars, mgrVars, loaderOut, simVars, netUp, dataDir, storeVars, error, embeddings,
                   vector_store_manager, llm, connTest, callVars, testVars>>

InitVectorStoreManager ==
    /\ Constructing("vector_store_manager")
    /\ vector_store_manager' = TRUE
    /\ pc' = pc + 1
    /\ UNCHANGED <<envVars, auxVars, mgrVars, loaderOut, simVars, netUp, dataDir, storeVars, error, embeddings,
                   document_loader, llm, connTest, callVars, testVars>>

InitLLM ==
    /\ Constructing("llm")
    /\ IF Lower(provider) = "deepseek"
       THEN IF DeepSeekInitRaises(apiKeySet)
            THEN /\ error' = "ValueError"
                 /\ UNCHANGED <<pc, llm, connTest>>
            ELSE \E reply \in Replies :
                    LET ok == TestConnection(netUp, reply)
                    IN /\ llm' = LLMAfterTest(ok)
                       /\ connTest' = IF ok THEN "passed" ELSE "failed"
                       /\ pc' = pc + 1
                       /\ UNCHANGED error
       ELSE /\ llm' = None
            /\ connTest' = "skipped"
            /\ pc' = pc + 1
            /\ UNCHANGED error
    /\ UNCHANGED <<envVars, auxVars, mgrVars, loaderOut, simVars, netUp, dataDir, storeVars, embeddings,
                   document_loader, vector_store_manager, callVars, testVars>>

LoadDocumentsAndCreateStore ==
    /\ Constructing("store")
    /\ IF LoadTextRaises(dataDir)
       THEN /\ error' = "LoadError"
            /\ UNCHANGED <<storeVars, pc, mgrVars>>
       ELSE /\ LET loaded == LoadTextDocuments(dataDir)
                   documents == IF loaded = <<>> THEN CreateTestDocuments ELSE loaded
               IN /\ collection' = CreateVectorStore(collection, documents)
                  /\ createdDocs' = documents
            /\ vector_store' = "chroma"
            /\ persistDirExists' = TRUE
            /\ mgrOp' = "create_vector_store"
            /\ mgrError' = None
            /\ handleHist' = "live"
            /\ pc' = pc + 1
            /\ UNCHANGED <<error, mgrResult>>
    /\ UNCHANGED <<envVars, auxVars, loaderOut, simVars, netUp, dataDir, objVars, callVars, testVars>>

(* ------------------------------ handlers ------------------------------ *)
Idle == Ready /\ ~batchActive

QueryEffect(q, k, reply) ==
    LET r == RunQuery(llm, collection, q, k, netUp, reply, 1)
    IN /\ results' = <<r.result>>
       /\ calls' = <<r.call>>
       /\ events' = r.events
       /\ lastOp' = "query"
       /\ batchInput' = <<q>>
       /\ UNCHANGED batchActive

BatchStartEffect(questions) ==
    /\ batchActive' = TRUE
    /\ batchInput' = questions
    /\ lastOp' = "batch"
    /\ results' = <<>>
    /\ calls' = <<>>
    /\ events' = <<>>

Query(q, k) ==
    /\ caller = "library"
    /\ Idle
    /\ \E reply \in Replies : QueryEffect(q, k, reply)
    /\ UNCHANGED <<envVars, auxVars, mgrVars, loaderOut, simVars, netUp, dataDir, storeVars, pc, error, objVars, testVars>>

BatchStart(questions) ==
    /\ caller = "library"
    /\ Idle
    /\ BatchStartEffect(questions)
    /\ UNCHANGED <<envVars, auxVars, mgrVars, loaderOut, simVars, netUp, dataDir, storeVars, pc, error, objVars, testVars>>

\* One iteration of the loop of batch_query: result = self.query(question);
\* results.append(result). Each iteration is a whole query() call; the loop is
\* kept as steps so that the provider may come and go between two questions
\* of one batch.
BatchStep ==
    /\ batchActive
    /\ Len(results) < Len(batchInput)
    /\ \E reply \in Replies :
          LET i == Len(results) + 1
              r == RunQuery(llm, collection, BatchQuestion(batchInput, i),
                            RetrievalK, netUp, reply, i)
          IN /\ results' = Append(results, r.result)
             /\ calls' = Append(calls, r.call)
             /\ events' = events \o r.events
    /\ UNCHANGED <<envVars, auxVars, mgrVars, loaderOut, simVars, netUp, dataDir, storeVars, pc, error, objVars,
                   lastOp, batchInput, batchActive, testVars>>

BatchReturn ==
    /\ batchActive
    /\ Len(results) = Len(batchInput)
    /\ batchActive' = FALSE
    /\ testPc' = IF testPc = "batching" THEN "return" ELSE testPc
    /\ UNCHANGED <<envVars, auxVars, mgrVars, loaderOut, simVars, netUp, dataDir, storeVars, pc, error, objVars,
                   lastOp, batchInput, results, calls, events, testReturn>>

\* rag_system.vector_store_manager.clear_store(); a raised AttributeError
\* goes to the caller and leaves the system as it was.
ClearStore ==
    /\ caller = "library"
    /\ Idle
    /\ vector_store # None
    /\ \E out \in DeleteAllOutcomes : collection' = DeleteAll(collection, out)
    /\ UNCHANGED <<envVars, auxVars, mgrVars, loaderOut, simVars, netUp, dataDir, persistDirExists, vector_store,
                   createdDocs, pc, error, objVars, callVars, testVars>>

\* The chat provider becomes unreachable, or reachable again.
NetworkChange ==
    /\ netUp' = ~netUp
    /\ UNCHANGED <<envVars, auxVars, mgrVars, loaderOut, simVars, dataDir, storeVars, pc, error, objVars, callVars, testVars>>

(* ---------------------- test_complete_rag_system ---------------------- *)
\* setup_environment(): EnvironmentManager() loads the .env file, then
\* create_directories; an exception of the loading goes to the except
\* branch of test_complete_rag_system, which returns False.
MainSetup ==
    /\ testPc = "start"
    /\ LET env == LoadEnvironment(apiKey, envFile, dotenvInstalled)
       IN /\ apiKey' = env.key
          /\ IF env.raised
             THEN /\ testReturn' = "failure"
                  /\ testPc' = "done"
                  /\ UNCHANGED <<dataDir, persistDirExists>>
             ELSE /\ dataDir' = [dataDir EXCEPT !.exists = TRUE]
                  /\ persistDirExists' = TRUE
                  /\ testPc' = "construct"
                  /\ UNCHANGED testReturn
    /\ UNCHANGED <<procVars, auxVars, mgrVars, loaderOut, simVars, netUp, collection, vector_store, createdDocs, pc,
                   error, objVars, callVars>>

MainQuery ==
    /\ testPc = "construct"
    /\ Ready
    /\ \E reply \in Replies : QueryEffect(TestQuestions[1], RetrievalK, reply)
    /\ testPc' = "batch"
    /\ UNCHANGED <<envVars, auxVars, mgrVars, loaderOut, simVars, netUp, dataDir, storeVars, pc, error, objVars, testReturn>>

MainBatchStart ==
    /\ testPc = "batch"
    /\ BatchStartEffect(TestQuestions)
    /\ testPc' = "batching"
    /\ UNCHANGED <<envVars, auxVars, mgrVars, loaderOut, simVars, netUp, dataDir, storeVars, pc, error, objVars, testReturn>>

MainReturn ==
    /\ testPc = "return"
    /\ testReturn' = "success"
    /\ testPc' = "done"
    /\ UNCHANGED <<envVars, auxVars, mgrVars, loaderOut, simVars, netUp, dataDir, storeVars, pc, error, objVars, callVars>>

\* except Exception as e: ... return False
MainExcept ==
    /\ testPc = "construct"
    /\ error # None
    /\ testReturn' = "failure"
    /\ testPc' = "done"
    /\ UNCHANGED <<envVars, auxVars, mgrVars, loaderOut, simVars, netUp, dataDir, storeVars, pc, error, objVars, callVars>>

Next ==
    \/ InitEmbeddings
    \/ InitDocumentLoader
    \/ InitVectorStoreManager
    \/ InitLLM
    \/ LoadDocumentsAndCreateStore
    \/ \E q \in 1..MaxQ, k \in 1..MaxK : Query(q, k)
    \/ \E n \in 0..MaxBatch : \E questions \in [1..n -> 1..MaxQ] : BatchStart(questions)
    \/ BatchStep
    \/ BatchReturn
    \/ ClearStore
    \/ NetworkChange
    \/ MainSetup
    \/ MainQuery
    \/ MainBatchStart
    \/ MainReturn
    \/ MainExcept

Spec == Init /\ [][Next]_vars

(* ------------- construction over any directory and store -------------- *)
\* What earlier runs may have left under the persist directory: nothing, an
\* empty directory (setup_environment), or a collection of earlier documents.
PriorStores ==
    {[exists |-> FALSE, items |-> <<>>], [exists |-> TRUE, items |-> <<>>],
     [exists |-> TRUE, items |-> CreateTestDocuments]}
        \cup {[exists |-> TRUE, items |-> TextDocs(n)] : n \in 1..MaxDocs}

InitIngest ==
    /\ caller = "library"
    /\ apiKey \in {"unset", "set"}
    /\ NoEnvFile
    /\ modelLoads \in BOOLEAN
    /\ netUp \in BOOLEAN
    /\ provider \in Providers
    /\ dataDir \in {NoDirectory} \cup
                   [exists : {TRUE}, txt : 0..MaxDocs, sub : 0..MaxSub, other : 0..1,
                    otherSub : 0..MaxSub, bad : BOOLEAN]
    /\ priorStore \in PriorStores
    /\ simA = <<>>
    /\ simB = <<>>
    /\ CliIdle
    /\ AgentIdle
    /\ Quiescent
    /\ GraphIdle
    /\ testPc = "na"

\* DocumentLoader().load_all_documents() on the document directory.
LoadAll ==
    /\ caller = "library"
    /\ ~loaderOut.called
    /\ loaderOut' = [called |-> TRUE, docs |-> LoadAllDocuments(dataDir)]
    /\ UNCHANGED <<envVars, auxVars, mgrVars, simVars, netUp, dataDir, storeVars, pc,
                   error, objVars, callVars, testVars>>

\* EnvironmentManager.set_env_var("DEEPSEEK_API_KEY", value), called by the
\* program before or after it constructs the system.
SetEnvVar ==
    /\ caller = "library"
    /\ pc = 1 \/ Constructed \/ error # None
    /\ \E value \in {"empty", "set"} : apiKey' = value
    /\ UNCHANGED <<procVars, auxVars, mgrVars, loaderOut, simVars, netUp, dataDir, storeVars,
                   pc, error, objVars, callVars, testVars>>

NextIngest ==
    \/ SetEnvVar
    \/ InitEmbeddings
    \/ InitDocumentLoader
    \/ InitVectorStoreManager
    \/ InitLLM
    \/ LoadDocumentsAndCreateStore
    \/ LoadAll

SpecIngest == InitIngest /\ [][NextIngest]_vars

(* ---------------- a VectorStoreManager handle used directly ------------ *)
InitStore ==
    /\ caller = "store"
    /\ apiKey = "unset"
    /\ NoEnvFile
    /\ modelLoads = TRUE
    /\ netUp = FALSE
    /\ provider = "deepseek"
    /\ dataDir = NoDirectory
    /\ priorStore \in PriorStores
    /\ simA = <<>>
    /\ simB = <<>>
    /\ CliIdle
    /\ AgentIdle
    /\ Quiescent
    /\ GraphIdle
    /\ testPc = "na"

StoreFrame == UNCHANGED <<envVars, auxVars, loaderOut, simVars, netUp, dataDir, pc, error,
                          objVars, callVars, testVars>>

\* The document lists a caller hands to create_vector_store.
DocumentLists == {TextDocs(n) : n \in 1..MaxDocs} \cup {CreateTestDocuments}

\* What a Chroma handle does once its directory was removed under it is
\* Chroma's matter: it answers from what it held, or it raises.
OrphanOutcomes == {"served", "chroma_error"}

\* The outcomes of a read through the handle.
ReadOutcomes(hist) == IF hist = "orphaned" THEN OrphanOutcomes ELSE {"served"}

\* The collection under the persist directory as create_vector_store finds it.
Persisted(dirExists, coll) == IF dirExists THEN coll ELSE <<>>

MgrCreate(docs) ==
    /\ caller = "store"
    /\ Len(collection) + Len(docs) <= MaxItems
    /\ collection' = CreateVectorStore(Persisted(persistDirExists, collection), docs)
    /\ createdDocs' = docs
    /\ vector_store' = "chroma"
    /\ persistDirExists' = TRUE
    /\ mgrOp' = "create_vector_store"
    /\ mgrError' = None
    /\ mgrResult' = NoResult
    /\ handleHist' = "live"
    /\ StoreFrame

MgrLoad ==
    /\ caller = "store"
    /\ mgrOp' = "load_existing_store"
    /\ mgrResult' = NoResult
    /\ IF LoadRaises(persistDirExists)
       THEN /\ mgrError' = "FileNotFoundError"
            /\ vector_store' = HandleAfterFailedLoad(vector_store)
            /\ UNCHANGED handleHist
       ELSE /\ mgrError' = None
            /\ vector_store' = "chroma"
            /\ handleHist' = "live"
    /\ UNCHANGED <<persistDirExists, collection, createdDocs>>
    /\ StoreFrame

MgrSimilaritySearch(q, k) ==
    /\ caller = "store"
    /\ mgrOp' = "similarity_search"
    /\ IF SearchRaises(vector_store)
       THEN /\ mgrError' = "ValueError"
            /\ mgrResult' = NoResult
       ELSE \E out \in ReadOutcomes(handleHist) :
              IF out = "chroma_error"
              THEN /\ mgrError' = "ChromaError"
                   /\ mgrResult' = NoResult
              ELSE /\ mgrError' = None
                   /\ LET found == DocsOf(SearchWithScores(collection, q, k))
                      IN mgrResult' = [kind |-> "documents", items |-> found,
                                       count |-> Len(found)]
    /\ UNCHANGED <<storeVars, handleHist>>
    /\ StoreFrame

MgrSearchWithScores(q, k) ==
    /\ caller = "store"
    /\ mgrOp' = "search_with_scores"
    /\ IF SearchRaises(vector_store)
       THEN /\ mgrError' = "ValueError"
            /\ mgrResult' = NoResult
       ELSE \E out \in ReadOutcomes(handleHist) :
              IF out = "chroma_error"
              THEN /\ mgrError' = "ChromaError"
                   /\ mgrResult' = NoResult
              ELSE /\ mgrError' = None
                   /\ LET found == SearchWithScores(collection, q, k)
                      IN mgrResult' = [kind |-> "scored", items |-> found,
                                       count |-> Len(found)]
    /\ UNCHANGED <<storeVars, handleHist>>
    /\ StoreFrame

MgrGetStoreInfo ==
    /\ caller = "store"
    /\ mgrOp' = "get_store_info"
    /\ mgrError' = None
    /\ \E out \in ReadOutcomes(handleHist) :
         mgrResult' = IF vector_store = None \/ out = "chroma_error"
                      THEN [kind |-> "error_info", items |-> <<>>, count |-> 0]
                      ELSE [kind |-> "info", items |-> <<>>, count |-> Len(collection)]
    /\ UNCHANGED <<storeVars, handleHist>>
    /\ StoreFrame

MgrClear ==
    /\ caller = "store"
    /\ mgrOp' = "clear_store"
    /\ mgrResult' = NoResult
    /\ IF vector_store = None
       THEN /\ mgrError' = None
            /\ UNCHANGED collection
       ELSE \E out \in DeleteAllOutcomes :
                /\ collection' = DeleteAll(collection, out)
                /\ mgrError' = IF out = "emptied" THEN None ELSE out
    /\ UNCHANGED <<persistDirExists, vector_store, createdDocs, handleHist>>
    /\ StoreFrame

MgrDelete ==
    /\ caller = "store"
    /\ mgrOp' = "delete_store"
    /\ mgrError' = None
    /\ mgrResult' = NoResult
    /\ persistDirExists' = FALSE
    /\ collection' = <<>>
    /\ vector_store' = None
    /\ handleHist' = "deleted"
    /\ UNCHANGED createdDocs
    /\ StoreFrame

\* delete_store() of a second VectorStoreManager over the same persist
\* directory: the directory goes, this handle keeps its vector_store.
OtherMgrDelete ==
    /\ caller = "store"
    /\ persistDirExists
    /\ persistDirExists' = FALSE
    /\ IF vector_store = None
       THEN /\ collection' = <<>>
            /\ UNCHANGED handleHist
       ELSE /\ handleHist' = "orphaned"
            /\ UNCHANGED collection
    /\ UNCHANGED <<mgrOp, mgrError, mgrResult, vector_store, createdDocs>>
    /\ StoreFrame

NextStore ==
    \/ OtherMgrDelete
    \/ \E docs \in DocumentLists : MgrCreate(docs)
    \/ MgrLoad
    \/ \E q \in 1..MaxQ, k \in 1..MaxK : MgrSimilaritySearch(q, k)
    \/ \E q \in 1..MaxQ, k \in 1..MaxK : MgrSearchWithScores(q, k)
    \/ MgrGetStoreInfo
    \/ MgrClear
    \/ MgrDelete

SpecStore == InitStore /\ [][NextStore]_vars

(* ------------------- SimilarityCalculator called directly -------------- *)
InitSim ==
    /\ caller = "similarity"
    /\ apiKey = "unset"
    /\ NoEnvFile
    /\ modelLoads = TRUE
    /\ netUp = FALSE
    /\ provider = "deepseek"
    /\ dataDir = NoDirectory
    /\ priorStore = [exists |-> FALSE, items |-> <<>>]
    /\ simA \in Vectors
    /\ simB \in Vectors
    /\ CliIdle
    /\ AgentIdle
    /\ Quiescent
    /\ GraphIdle
    /\ testPc = "na"

SimFrame == UNCHANGED <<envVars, auxVars, mgrVars, loaderOut, netUp, dataDir, storeVars, pc,
                        error, objVars, callVars, testVars>>

SimCosine ==
    /\ caller = "similarity"
    /\ simOp = "none"
    /\ simOp' = "cosine_similarity"
    /\ simOut' = CosineSimilarity(simA, simB)
    /\ UNCHANGED <<simA, simB>>
    /\ SimFrame

SimEuclidean ==
    /\ caller = "similarity"
    /\ simOp = "none"
    /\ simOp' = "euclidean_distance"
    /\ simOut' = EuclideanDistance(simA, simB)
    /\ UNCHANGED <<simA, simB>>
    /\ SimFrame

SimManhattan ==
    /\ caller = "similarity"
    /\ simOp = "none"
    /\ simOp' = "manhattan_distance"
    /\ simOut' = ManhattanDistance(simA, simB)
    /\ UNCHANGED <<simA, simB>>
    /\ SimFrame

SimDot ==
    /\ caller = "similarity"
    /\ simOp = "none"
    /\ simOp' = "dot_product"
    /\ simOut' = DotProduct(simA, simB)
    /\ UNCHANGED <<simA, simB>>
    /\ SimFrame

NextSim ==
    \/ SimCosine
    \/ SimEuclidean
    \/ SimManhattan
    \/ SimDot

SpecSim == InitSim /\ [][NextSim]_vars

(* ------------------------------ main.py ------------------------------- *)
\* success = success and success_retrieval / success_complete
AccumulateSuccessOverwrites(acc, ok) == ok

AccumulateSuccess(acc, ok) == acc /\ ok

\* sys.exit(0 if success else 1)
ExitCode(ok) == IF ok THEN 0 ELSE 1

InitCli ==
    /\ caller = "cli"
    /\ apiKey \in KeyStates
    /\ envFile \in EnvFiles
    /\ dotenvInstalled \in BOOLEAN
    /\ modelLoads \in BOOLEAN
    /\ netUp \in BOOLEAN
    /\ provider = "deepseek"
    /\ dataDir \in {NoDirectory} \cup
                   [exists : {TRUE}, txt : 0..MaxDocs, sub : {0}, other : {0}, otherSub : {0},
                    bad : BOOLEAN]
    /\ priorStore \in {[exists |-> FALSE, items |-> <<>>],
                       [exists |-> TRUE, items |-> CreateTestDocuments]}
    /\ simA = <<>>
    /\ simB = <<>>
    /\ mode \in {"retrieval", "complete", "both"}
    /\ cliPc = "retrieval"
    /\ success = TRUE
    /\ retrievalReturn = "pending"
    /\ exitCode = None
    /\ AgentIdle
    /\ Quiescent
    /\ GraphIdle
    /\ testPc = "na"

CliRest == <<procVars, agentVars, graphVars, mgrVars, loaderOut, simVars, netUp, pc, error,
             objVars, callVars>>
CliFrame == UNCHANGED <<CliRest, apiKey>>

\* What the libraries outside the repository may do to one run of
\* test_sentence_transformers_rag beside a model that does not load (step
\* 3): nothing, an exception while the embedding
\* model is tried (steps 4 and 5), an exception in the similarity
\* analysis (step 9: the import of utils.similarity, embed_documents).
RetrievalFaults == {"none", "embedding", "similarity"}

\* The step at which test_sentence_transformers_rag leaves its try block.
RetrievalStage(setupRaised, modelRaised, loadRaised, fault) ==
    IF setupRaised THEN "setup"
    ELSE IF modelRaised \/ fault = "embedding" THEN "embedding"
    ELSE IF loadRaised THEN "load"
    ELSE IF fault = "similarity" THEN "similarity"
    ELSE "return"

\* if args.mode in ["retrieval", "both"]: test_sentence_transformers_rag(),
\* the whole test: setup_environment, the embedding model and its two
\* trials, load_text_documents, a store of the first 5 documents (or the
\* example documents) under the default persist directory, three searches,
\* the similarity analysis; any exception makes it return False.
CliRetrievalTest ==
    /\ cliPc = "retrieval"
    /\ mode \in {"retrieval", "both"}
    /\ \E fault \in RetrievalFaults :
         LET env == LoadEnvironment(apiKey, envFile, dotenvInstalled)
             dir == [dataDir EXCEPT !.exists = TRUE]
             loaded == LoadTextDocuments(dir)
             docs == IF loaded # <<>> THEN SubSeq(loaded, 1, Min(5, Len(loaded)))
                     ELSE CreateTestDocuments
             stage == RetrievalStage(env.raised, ~modelLoads, LoadTextRaises(dir), fault)
         IN /\ apiKey' = env.key
            /\ dataDir' = IF stage = "setup" THEN dataDir ELSE dir
            /\ persistDirExists' = IF stage = "setup" THEN persistDirExists ELSE TRUE
            /\ collection' = IF stage \in {"similarity", "return"}
                             THEN CreateVectorStore(collection, docs) ELSE collection
            /\ retrievalReturn' = IF stage = "return" THEN "success" ELSE "failure"
            /\ success' = AccumulateSuccess(success, stage = "return")
    /\ cliPc' = "complete"
    /\ UNCHANGED <<mode, exitCode, vector_store, createdDocs, testVars, CliRest>>

CliSkipRetrieval ==
    /\ cliPc = "retrieval"
    /\ mode = "complete"
    /\ retrievalReturn' = "skipped"
    /\ cliPc' = "complete"
    /\ UNCHANGED <<mode, success, exitCode, dataDir, storeVars, testVars>>
    /\ CliFrame

\* if args.mode in ["complete", "both"]: test_complete_rag_system() is entered.
CliStartComplete ==
    /\ cliPc = "complete"
    /\ mode \in {"complete", "both"}
    /\ testPc' = "start"
    /\ cliPc' = "in_complete"
    /\ UNCHANGED <<mode, success, retrievalReturn, exitCode, dataDir, storeVars, testReturn>>
    /\ CliFrame

CliSkipComplete ==
    /\ cliPc = "complete"
    /\ mode = "retrieval"
    /\ cliPc' = "exit"
    /\ UNCHANGED <<mode, success, retrievalReturn, exitCode, dataDir, storeVars, testVars>>
    /\ CliFrame

\* success_complete = test_complete_rag_system(); success = success and success_complete
CliCompleteReturns ==
    /\ cliPc = "in_complete"
    /\ testPc = "done"
    /\ success' = AccumulateSuccess(success, testReturn = "success")
    /\ cliPc' = "exit"
    /\ UNCHANGED <<mode, retrievalReturn, exitCode, dataDir, storeVars, testVars>>
    /\ CliFrame

\* return success; sys.exit(0 if success else 1)
CliExit ==
    /\ cliPc = "exit"
    /\ exitCode' = ExitCode(success)
    /\ cliPc' = "done"
    /\ UNCHANGED <<mode, success, retrievalReturn, dataDir, storeVars, testVars>>
    /\ CliFrame

NextCli ==
    \/ CliRetrievalTest
    \/ CliSkipRetrieval
    \/ CliStartComplete
    \/ CliSkipComplete
    \/ CliCompleteReturns
    \/ CliExit
    \/ MainSetup
    \/ InitEmbeddings
    \/ InitDocumentLoader
    \/ InitVectorStoreManager
    \/ InitLLM
    \/ LoadDocumentsAndCreateStore
    \/ MainQuery
    \/ MainBatchStart
    \/ BatchStep
    \/ BatchReturn
    \/ MainReturn
    \/ MainExcept

SpecCli == InitCli /\ [][NextCli]_vars

(* ------------------------ EnglishLearningAgent ------------------------ *)
\* What llm.ainvoke may return: a reply whose content is a JSON object the
\* result models accept ("response"), a JSON list, a JSON object with an item
\* the models reject, a reply whose content is None, a content no parsing
\* step of safe_json_parse reads as JSON.
Responses ==
    {"response", "response_list", "response_bad_item", "response_none_content",
     "response_unparsable"}

\* How llm.ainvoke may end within asyncio.wait_for.
LlmOutcomes == Responses \cup {"timeout", "cancelled", "exception"}

\* Encodings the standard output of the process may have.
Consoles == {"utf8", "gbk", "ascii"}

\* print(text) succeeds when the encoding has every character of text; the
\* messages hold the sign U+26A0 ("emoji") or Chinese text only ("chinese").
CanPrint(enc, text) ==
    \/ enc = "utf8"
    \/ enc = "gbk" /\ text = "chinese"

\* try: print("⚠️ ...") except UnicodeEncodeError: print("API调用...")
\* TRUE when the second print raises too.
WarningRaises(enc) == ~CanPrint(enc, "emoji") /\ ~CanPrint(enc, "chinese")

\* safe_api_call(llm, prompt, timeout): what the caller gets.
SafeApiCall(outcome, enc) ==
    IF outcome \in Responses THEN [raised |-> FALSE, value |-> outcome]
    ELSE IF outcome = "cancelled" THEN [raised |-> FALSE, value |-> None]
    ELSE [raised |-> WarningRaises(enc), value |-> None]

\* safe_json_parse(response.content, fallback_data): content None has no
\* strip(); json.loads returns a list as it is; when no step parses the
\* content the warning with U+26A0 is printed (no UnicodeEncodeError handler
\* here) and the fallback data returned.
SafeJsonParse(reply, enc) ==
    CASE reply = "response_none_content" -> [raised |-> TRUE, data |-> "none"]
      [] reply = "response_list" -> [raised |-> FALSE, data |-> "list"]
      [] reply = "response_bad_item" -> [raised |-> FALSE, data |-> "dict_bad_item"]
      [] reply = "response_unparsable" ->
           IF CanPrint(enc, "emoji") THEN [raised |-> FALSE, data |-> "fallback"]
           ELSE [raised |-> TRUE, data |-> "none"]
      [] OTHER -> [raised |-> FALSE, data |-> "dict"]

\* Building the result from the parsed data raises: a list has no get(), a
\* rejected item fails the model constructor.
BuildRaises(data) == data \in {"list", "dict_bad_item"}

\* The message prefix of the exception each operation raises.
FailurePrefix(op) ==
    CASE op = "create_learning_plan" -> "PLAN_FAILED"
      [] op = "assess_level" -> "ASSESSMENT_FAILED"
      [] op = "learn_vocabulary" -> "VOCABULARY_FAILED"
      [] op = "start_conversation" -> "CONVERSATION_FAILED"
      [] op = "practice_grammar" -> "GRAMMAR_FAILED"
      [] op = "evaluate_progress" -> "PROGRESS_FAILED"
      [] OTHER -> "INTERACTION_FAILED"

\* if user_id not in self.user_sessions: self.user_sessions[user_id] = {}
\* self.user_sessions[user_id][key] = ... / [key].append(...)
Stored(entry, op) ==
    LET e == [entry EXCEPT !.present = TRUE]
    IN CASE op = "create_learning_plan" -> [e EXCEPT !.learning_plan = TRUE]
         [] op = "assess_level" -> [e EXCEPT !.assessment = TRUE]
         [] op = "learn_vocabulary" -> [e EXCEPT !.vocabulary_sessions = @ + 1]
         [] op = "start_conversation" -> [e EXCEPT !.conversation_sessions = @ + 1]
         [] op = "practice_grammar" -> [e EXCEPT !.grammar_sessions = @ + 1]
         [] op = "evaluate_progress" -> [e EXCEPT !.progress_report = TRUE]

\* return self.user_sessions.get(user_id)
GetUserProfile(us, u) ==
    IF us[u].present THEN [none |-> FALSE, data |-> us[u]]
    ELSE [none |-> TRUE, data |-> NoData]

\* if user_id in self.user_sessions: del self.user_sessions[user_id]
ClearEveryUser(us, u) == [v \in Users |-> NoData]

ClearUserData(us, u) == [us EXCEPT ![u] = NoData]

InitAgent ==
    /\ caller = "agent"
    /\ apiKey = "unset"
    /\ NoEnvFile
    /\ modelLoads = TRUE
    /\ netUp = FALSE
    /\ provider = "deepseek"
    /\ dataDir = NoDirectory
    /\ priorStore = [exists |-> FALSE, items |-> <<>>]
    /\ simA = <<>>
    /\ simB = <<>>
    /\ CliIdle
    /\ console \in Consoles
    /\ AgentFresh
    /\ Quiescent
    /\ GraphIdle
    /\ testPc = "na"

AgentFrame == UNCHANGED <<ragVars, cliVars, graphVars, console>>

\* Number of calls waiting for the LLM.
RECURSIVE SumPending(_, _)
SumPending(pending, cs) ==
    IF cs = {} THEN 0
    ELSE LET c == CHOOSE x \in cs : TRUE
         IN pending[c] + SumPending(pending, cs \ {c})

Waiting(pending) == SumPending(pending, PendingCalls)

\* A coroutine reaches its await / is resumed from it.
Suspend(pending, op, u) == [pending EXCEPT ![[op |-> op, user |-> u]] = @ + 1]
Resume(pending, op, u) == [pending EXCEPT ![[op |-> op, user |-> u]] = @ - 1]

\* The code the six storing operations share after safe_api_call returned:
\* fallback data when it gave None, else safe_json_parse of the content; the
\* result built from the data and saved under the user's entry; any
\* exception is raised again with the operation's own message.
OperationOut(op, outcome, enc) ==
    LET r == SafeApiCall(outcome, enc)
        p == SafeJsonParse(r.value, enc)
        failed == [kind |-> "raised", msg |-> FailurePrefix(op), fallback |-> FALSE,
                   llm |-> outcome]
    IN IF r.raised THEN failed
       ELSE IF r.value = None
       THEN [kind |-> "returned", msg |-> None, fallback |-> TRUE, llm |-> outcome]
       ELSE IF p.raised \/ BuildRaises(p.data) THEN failed
       ELSE [kind |-> "returned", msg |-> None, fallback |-> p.data = "fallback",
             llm |-> outcome]

\* The entry is written after the result was built, so only by a call that returns.
OperationStore(us, op, u, outcome, enc) ==
    IF OperationOut(op, outcome, enc).kind = "raised" THEN us
    ELSE [us EXCEPT ![u] = Stored(@, op)]

\* interactive_conversation after safe_api_call returned: response.content
\* is handed back as it is, None gives the apology with "error": True.
InteractionOut(outcome, enc) ==
    LET r == SafeApiCall(outcome, enc)
    IN IF r.raised
       THEN [kind |-> "raised", msg |-> FailurePrefix("interactive_conversation"),
             fallback |-> FALSE, llm |-> outcome]
       ELSE [kind |-> "returned", msg |-> None, fallback |-> r.value = None,
             llm |-> outcome]

\* create_learning_plan(...) up to `await safe_api_call(...)`
CreateLearningPlan ==
    \E u \in Users :
        /\ caller = "agent"
        /\ agentCalls < MaxCalls
        /\ Waiting(agentPending) < MaxPending
        /\ agentCalls' = agentCalls + 1
        /\ agentPending' = Suspend(agentPending, "create_learning_plan", u)
        /\ UNCHANGED <<user_sessions, agentOp, agentUser, agentOut, agentQueries, clearLog>>
        /\ AgentFrame

\* create_learning_plan(...) from the return of safe_api_call to its own end
CreateLearningPlanResumes ==
    \E u \in Users, outcome \in LlmOutcomes :
        /\ agentPending[[op |-> "create_learning_plan", user |-> u]] > 0
        /\ agentPending' = Resume(agentPending, "create_learning_plan", u)
        /\ agentOp' = "create_learning_plan"
        /\ agentUser' = u
        /\ agentOut' = OperationOut("create_learning_plan", outcome, console)
        /\ user_sessions' = OperationStore(user_sessions, "create_learning_plan", u, outcome, console)
        /\ UNCHANGED <<agentCalls, agentQueries, clearLog>>
        /\ AgentFrame

\* assess_level(...) up to `await safe_api_call(...)`
AssessLevel ==
    \E u \in Users :
        /\ caller = "agent"
        /\ agentCalls < MaxCalls
        /\ Waiting(agentPending) < MaxPending
        /\ agentCalls' = agentCalls + 1
        /\ agentPending' = Suspend(agentPending, "assess_level", u)
        /\ UNCHANGED <<user_sessions, agentOp, agentUser, agentOut, agentQueries, clearLog>>
        /\ AgentFrame

\* assess_level(...) from the return of safe_api_call to its own end
AssessLevelResumes ==
    \E u \in Users, outcome \in LlmOutcomes :
        /\ agentPending[[op |-> "assess_level", user |-> u]] > 0
        /\ agentPending' = Resume(agentPending, "assess_level", u)
        /\ agentOp' = "assess_level"
        /\ agentUser' = u
        /\ agentOut' = OperationOut("assess_level", outcome, console)
        /\ user_sessions' = OperationStore(user_sessions, "assess_level", u, outcome, console)
        /\ UNCHANGED <<agentCalls, agentQueries, clearLog>>
        /\ AgentFrame

\* learn_vocabulary(...) up to `await safe_api_call(...)`
LearnVocabulary ==
    \E u \in Users :
        /\ caller = "agent"
        /\ agentCalls < MaxCalls
        /\ Waiting(agentPending) < MaxPending
        /\ agentCalls' = agentCalls + 1
        /\ agentPending' = Suspend(agentPending, "learn_vocabulary", u)
        /\ UNCHANGED <<user_sessions, agentOp, agentUser, agentOut, agentQueries, clearLog>>
        /\ AgentFrame

\* learn_vocabulary(...) from the return of safe_api_call to its own end
LearnVocabularyResumes ==
    \E u \in Users, outcome \in LlmOutcomes :
        /\ agentPending[[op |-> "learn_vocabulary", user |-> u]] > 0
        /\ agentPending' = Resume(agentPending, "learn_vocabulary", u)
        /\ agentOp' = "learn_vocabulary"
        /\ agentUser' = u
        /\ agentOut' = OperationOut("learn_vocabulary", outcome, console)
        /\ user_sessions' = OperationStore(user_sessions, "learn_vocabulary", u, outcome, console)
        /\ UNCHANGED <<agentCalls, agentQueries, clearLog>>
        /\ AgentFrame

\* start_conversation(...) up to `await safe_api_call(...)`
StartConversation ==
    \E u \in Users :
        /\ caller = "agent"
        /\ agentCalls < MaxCalls
        /\ Waiting(agentPending) < MaxPending
        /\ agentCalls' = agentCalls + 1
        /\ agentPending' = Suspend(agentPending, "start_conversation", u)
        /\ UNCHANGED <<user_sessions, agentOp, agentUser, agentOut, agentQueries, clearLog>>
        /\ AgentFrame

\* start_conversation(...) from the return of safe_api_call to its own end
StartConversationResumes ==
    \E u \in Users, outcome \in LlmOutcomes :
        /\ agentPending[[op |-> "start_conversation", user |-> u]] > 0
        /\ agentPending' = Resume(agentPending, "start_conversation", u)
        /\ agentOp' = "start_conversation"
        /\ agentUser' = u
        /\ agentOut' = OperationOut("start_conversation", outcome, console)
        /\ user_sessions' = OperationStore(user_sessions, "start_conversation", u, outcome, console)
        /\ UNCHANGED <<agentCalls, agentQueries, clearLog>>
        /\ AgentFrame

\* practice_grammar(...) up to `await safe_api_call(...)`
PracticeGrammar ==
    \E u \in Users :
        /\ caller = "agent"
        /\ agentCalls < MaxCalls
        /\ Waiting(agentPending) < MaxPending
        /\ agentCalls' = agentCalls + 1
        /\ agentPending' = Suspend(agentPending, "practice_grammar", u)
        /\ UNCHANGED <<user_sessions, agentOp, agentUser, agentOut, agentQueries, clearLog>>
        /\ AgentFrame

\* practice_grammar(...) from the return of safe_api_call to its own end
PracticeGrammarResumes ==
    \E u \in Users, outcome \in LlmOutcomes :
        /\ agentPending[[op |-> "practice_grammar", user |-> u]] > 0
        /\ agentPending' = Resume(agentPending, "practice_grammar", u)
        /\ agentOp' = "practice_grammar"
        /\ agentUser' = u
        /\ agentOut' = OperationOut("practice_grammar", outcome, console)
        /\ user_sessions' = OperationStore(user_sessions, "practice_grammar", u, outcome, console)
        /\ UNCHANGED <<agentCalls, agentQueries, clearLog>>
        /\ AgentFrame

\* evaluate_progress(...) up to `await safe_api_call(...)`
EvaluateProgress ==
    \E u \in Users :
        /\ caller = "agent"
        /\ agentCalls < MaxCalls
        /\ Waiting(agentPending) < MaxPending
        /\ agentCalls' = agentCalls + 1
        /\ agentPending' = Suspend(agentPending, "evaluate_progress", u)
        /\ UNCHANGED <<user_sessions, agentOp, agentUser, agentOut, agentQueries, clearLog>>
        /\ AgentFrame

\* evaluate_progress(...) from the return of safe_api_call to its own end
EvaluateProgressResumes ==
    \E u \in Users, outcome \in LlmOutcomes :
        /\ agentPending[[op |-> "evaluate_progress", user |-> u]] > 0
        /\ agentPending' = Resume(agentPending, "evaluate_progress", u)
        /\ agentOp' = "evaluate_progress"
        /\ agentUser' = u
        /\ agentOut' = OperationOut("evaluate_progress", outcome, console)
        /\ user_sessions' = OperationStore(user_sessions, "evaluate_progress", u, outcome, console)
        /\ UNCHANGED <<agentCalls, agentQueries, clearLog>>
        /\ AgentFrame

\* interactive_conversation(user_id, session_id, user_message) up to its
\* await: known is whether session_id names one of the user's stored
\* conversation sessions; when it does not, the call raises at once.
InteractiveConversation ==
    \E u \in Users, known \in BOOLEAN :
        /\ caller = "agent"
        /\ agentCalls < MaxCalls
        /\ Waiting(agentPending) < MaxPending
        /\ known => user_sessions[u].conversation_sessions > 0
        /\ agentCalls' = agentCalls + 1
        /\ IF known
           THEN /\ agentPending' = Suspend(agentPending, "interactive_conversation", u)
                /\ UNCHANGED <<agentOp, agentUser, agentOut>>
           ELSE /\ agentOp' = "interactive_conversation"
                /\ agentUser' = u
                /\ agentOut' = [kind |-> "raised",
                                msg |-> FailurePrefix("interactive_conversation"),
                                fallback |-> FALSE, llm |-> "not_called"]
                /\ UNCHANGED agentPending
        /\ UNCHANGED <<user_sessions, agentQueries, clearLog>>
        /\ AgentFrame

\* interactive_conversation from the return of safe_api_call to its own end
InteractiveConversationResumes ==
    \E u \in Users, outcome \in LlmOutcomes :
        /\ agentPending[[op |-> "interactive_conversation", user |-> u]] > 0
        /\ agentPending' = Resume(agentPending, "interactive_conversation", u)
        /\ agentOp' = "interactive_conversation"
        /\ agentUser' = u
        /\ agentOut' = InteractionOut(outcome, console)
        /\ UNCHANGED <<user_sessions, agentCalls, agentQueries, clearLog>>
        /\ AgentFrame

GetProfile ==
    \E u \in Users :
        /\ caller = "agent"
        /\ agentQueries < MaxQueries
        /\ agentQueries' = agentQueries + 1
        /\ agentOp' = "get_user_profile"
        /\ agentUser' = u
        /\ agentOut' = [kind |-> "returned",
                        msg |-> IF GetUserProfile(user_sessions, u).none THEN None
                                ELSE "profile",
                        fallback |-> FALSE, llm |-> "not_called"]
        /\ UNCHANGED <<user_sessions, agentPending, agentCalls, clearLog>>
        /\ AgentFrame

ClearData ==
    \E u \in Users :
        /\ caller = "agent"
        /\ agentQueries < MaxQueries
        /\ agentQueries' = agentQueries + 1
        /\ clearLog' = [user |-> u, deleted |-> user_sessions[u].present,
                        kept |-> {v \in Users \ {u} : user_sessions[v].present}]
        /\ agentOp' = "clear_user_data"
        /\ agentUser' = u
        /\ agentOut' = [kind |-> "returned", msg |-> None, fallback |-> FALSE,
                        llm |-> "not_called"]
        /\ user_sessions' = ClearUserData(user_sessions, u)
        /\ UNCHANGED <<agentPending, agentCalls>>
        /\ AgentFrame

\* The calls of a program on one agent; a call that awaits the LLM leaves
\* the event loop to the others until its reply is there.
NextAgent ==
    \/ CreateLearningPlan
    \/ CreateLearningPlanResumes
    \/ AssessLevel
    \/ AssessLevelResumes
    \/ LearnVocabulary
    \/ LearnVocabularyResumes
    \/ StartConversation
    \/ StartConversationResumes
    \/ PracticeGrammar
    \/ PracticeGrammarResumes
    \/ EvaluateProgress
    \/ EvaluateProgressResumes
    \/ InteractiveConversation
    \/ InteractiveConversationResumes
    \/ GetProfile
    \/ ClearData

SpecAgent == InitAgent /\ [][NextAgent]_vars

\* The same program on a terminal that prints every message: what is stored
\* and cleared depends on the replies alone.
InitProfile == InitAgent /\ console = "utf8"

SpecProfile == InitProfile /\ [][NextAgent]_vars

(* ------------------------ TechLearningWorkflow ------------------------ *)
\* The graph of _create_workflow is taken as compiled: validate_input is the
\* entry point and every node's return value is the state the next node sees.
Technologies == {"", " ", "Python", " Python "}
Levels == {"beginner", "expert"}
ValidLevels == {"beginner", "intermediate", "advanced"}

\* str.strip() on the technologies above.
Strip(t) == IF t \in {"", " "} THEN "" ELSE "Python"

\* What self.research_agent.research_technology(technology, fast_mode=True)
\* can do as _research_technology sees it: a result whose status is not
\* "no_results", a result whose status is "no_results", an exception.
ResearchOutcomes == {"completed", "no_results", "raises"}
\* self.learning_agent.generate_learning_plan / customize_plan call the LLM:
\* they return a plan or raise.
PlanOutcomes == {"ok", "raises"}

\* initial_state of run().
InitialWfState(t, lvl, prefs) ==
    [technology |-> t, experience_level |-> lvl, preferences |-> prefs,
     research_results |-> FALSE, learning_plan |-> FALSE, error |-> None,
     status |-> "initialized"]

\* _validate_input; the error is "请提供要学习的技术名称".
ValidateInputState(state) ==
    IF Strip(state.technology) = ""
    THEN [state EXCEPT !.error = "TECHNOLOGY_NAME_REQUIRED", !.status = "error"]
    ELSE [state EXCEPT !.technology = Strip(@),
                       !.experience_level = IF @ \in ValidLevels THEN @ ELSE "beginner",
                       !.status = "validated"]

\* _research_technology; the errors are the agent's message and "技术研究失败: ...".
ResearchTechnologyState(state, outcome) ==
    CASE outcome = "no_results" ->
           [state EXCEPT !.error = "NO_RESULTS_MESSAGE", !.status = "error"]
      [] outcome = "raises" ->
           [state EXCEPT !.error = "RESEARCH_FAILED", !.status = "error"]
      [] OTHER ->
           [state EXCEPT !.research_results = TRUE, !.status = "researched"]

\* _generate_learning_plan calls the learning agent only with research results.
PlanCallOutcomes(state) == IF state.research_results THEN PlanOutcomes ELSE {"not_called"}

\* _generate_learning_plan; the errors are "缺少研究结果数据" and "学习方案生成失败: ...".
GenerateLearningPlanState(state, outcome) ==
    IF ~state.research_results
    THEN [state EXCEPT !.error = "MISSING_RESEARCH_RESULTS", !.status = "error"]
    ELSE IF outcome = "raises"
    THEN [state EXCEPT !.error = "PLAN_GENERATION_FAILED", !.status = "error"]
    ELSE [state EXCEPT !.learning_plan = TRUE, !.status = "planned"]

\* _should_customize
ShouldCustomize(state) == IF state.preferences THEN "customize" ELSE "finalize"

\* customize_plan(base_plan, preferences) reads base_plan.get(...): with
\* learning_plan None it raises before the LLM is called.
CustomizeCallOutcomes(state) ==
    IF ~state.preferences THEN {"not_called"}
    ELSE IF state.learning_plan THEN PlanOutcomes ELSE {"raises"}

\* _customize_plan; the error is "方案定制失败: ...".
CustomizePlanState(state, outcome) ==
    IF ~state.preferences THEN [state EXCEPT !.status = "ready"]
    ELSE IF outcome = "raises"
    THEN [state EXCEPT !.error = "CUSTOMIZATION_FAILED", !.status = "error"]
    ELSE [state EXCEPT !.status = "customized"]

\* _generate_final_output; the errors are "缺少研究结果数据" and "缺少学习方案数据".
GenerateFinalOutputState(state) ==
    IF ~state.research_results
    THEN [state EXCEPT !.error = "MISSING_RESEARCH_RESULTS", !.status = "error"]
    ELSE IF ~state.learning_plan
    THEN [state EXCEPT !.error = "MISSING_LEARNING_PLAN", !.status = "error"]
    ELSE [state EXCEPT !.status = "completed"]

\* _handle_error
HandleErrorState(state) == [state EXCEPT !.status = "failed"]

\* What run() returns for the final state of the graph.
RunResult(state) ==
    IF state.status = "completed"
    THEN [status |-> "completed", error |-> None]
    ELSE [status |-> state.status, error |-> state.error]

InitWorkflow ==
    /\ caller = "workflow"
    /\ apiKey = "unset"
    /\ NoEnvFile
    /\ modelLoads = TRUE
    /\ netUp = FALSE
    /\ provider = "deepseek"
    /\ dataDir = NoDirectory
    /\ priorStore = [exists |-> FALSE, items |-> <<>>]
    /\ simA = <<>>
    /\ simB = <<>>
    /\ CliIdle
    /\ AgentIdle
    /\ Quiescent
    /\ testPc = "na"
    /\ ResearchIdle
    /\ wfPc = "run"
    /\ technology \in Technologies
    /\ experience_level \in Levels
    /\ preferences \in BOOLEAN
    /\ wfState = NoWfState
    /\ wfCalls = {}
    /\ wfTrace = <<>>
    /\ wfResult = NoWfResult

WfFrame == UNCHANGED <<ragVars, cliVars, agentVars, researchVars, technology,
                       experience_level, preferences>>

\* run(): initial_state, then self.workflow.ainvoke enters at validate_input.
WfRun ==
    /\ wfPc = "run"
    /\ wfState' = InitialWfState(technology, experience_level, preferences)
    /\ wfPc' = "validate_input"
    /\ UNCHANGED <<wfCalls, wfTrace, wfResult>>
    /\ WfFrame

\* node validate_input, edge validate_input -> research_technology
ValidateInput ==
    /\ wfPc = "validate_input"
    /\ wfState' = ValidateInputState(wfState)
    /\ wfTrace' = Append(wfTrace, [node |-> "validate_input", status |-> wfState'.status,
                                   error |-> wfState'.error])
    /\ wfPc' = "research_technology"
    /\ UNCHANGED <<wfCalls, wfResult>>
    /\ WfFrame

\* node research_technology, edge research_technology -> generate_learning_plan
ResearchTechnology ==
    /\ wfPc = "research_technology"
    /\ \E outcome \in ResearchOutcomes :
         wfState' = ResearchTechnologyState(wfState, outcome)
    /\ wfCalls' = wfCalls \cup {"research_technology"}
    /\ wfTrace' = Append(wfTrace, [node |-> "research_technology", status |-> wfState'.status,
                                   error |-> wfState'.error])
    /\ wfPc' = "generate_learning_plan"
    /\ UNCHANGED wfResult
    /\ WfFrame

\* node generate_learning_plan, conditional edges by _should_customize
GenerateLearningPlan ==
    /\ wfPc = "generate_learning_plan"
    /\ \E outcome \in PlanCallOutcomes(wfState) :
         /\ wfState' = GenerateLearningPlanState(wfState, outcome)
         /\ wfCalls' = IF outcome = "not_called" THEN wfCalls
                       ELSE wfCalls \cup {"generate_learning_plan"}
    /\ wfTrace' = Append(wfTrace, [node |-> "generate_learning_plan", status |-> wfState'.status,
                                   error |-> wfState'.error])
    /\ wfPc' = IF ShouldCustomize(wfState') = "customize" THEN "customize_plan"
               ELSE "generate_final_output"
    /\ UNCHANGED wfResult
    /\ WfFrame

\* node customize_plan, edge customize_plan -> generate_final_output
CustomizePlan ==
    /\ wfPc = "customize_plan"
    /\ \E outcome \in CustomizeCallOutcomes(wfState) :
         /\ wfState' = CustomizePlanState(wfState, outcome)
         /\ wfCalls' = IF outcome = "not_called" THEN wfCalls
                       ELSE wfCalls \cup {"customize_plan"}
    /\ wfTrace' = Append(wfTrace, [node |-> "customize_plan", status |-> wfState'.status,
                                   error |-> wfState'.error])
    /\ wfPc' = "generate_final_output"
    /\ UNCHANGED wfResult
    /\ WfFrame

\* node generate_final_output, edge generate_final_output -> END
GenerateFinalOutput ==
    /\ wfPc = "generate_final_output"
    /\ wfState' = GenerateFinalOutputState(wfState)
    /\ wfTrace' = Append(wfTrace, [node |-> "generate_final_output", status |-> wfState'.status,
                                   error |-> wfState'.error])
    /\ wfPc' = "END"
    /\ UNCHANGED <<wfCalls, wfResult>>
    /\ WfFrame

\* run() after ainvoke returned.
WfReturn ==
    /\ wfPc = "END"
    /\ wfResult' = RunResult(wfState)
    /\ wfPc' = "returned"
    /\ UNCHANGED <<wfState, wfCalls, wfTrace>>
    /\ WfFrame

NextWorkflow ==
    \/ WfRun
    \/ ValidateInput
    \/ ResearchTechnology
    \/ GenerateLearningPlan
    \/ CustomizePlan
    \/ GenerateFinalOutput
    \/ WfReturn

SpecWorkflow == InitWorkflow /\ [][NextWorkflow]_vars

(* -------------------------- research assistant ------------------------ *)
\* Lists of the ResearchState are held by their lengths: search_results by
\* its length and the number of entries with an 'error' key. Scores are
\* fractions: credibility "overall" is overall_num / overall_den, the other
\* two credibility scores are in tenths, quality_score is
\* quality_num / quality_den.
Depths == {"basic", "standard", "comprehensive"}

\* query_count of initialize_research
QueryCount(depth) ==
    CASE depth = "basic" -> 3
      [] depth = "standard" -> 5
      [] OTHER -> 8

\* initialize_research, the LLM answering with `lines` non-empty lines.
InitializeResearch(state, lines) ==
    [state EXCEPT !.search_queries = Min(lines, QueryCount(state.research_depth)),
                  !.search_results = 0,
                  !.search_errors = 0,
                  !.research_notes = 0,
                  !.key_findings = 0,
                  !.improvement_suggestions = {},
                  !.retry_count = 0,
                  !.max_retries = 2]

\* conduct_search: one entry per query, `errors` of them recorded by the
\* outer except.
ConductSearch(state, errors) ==
    [state EXCEPT !.search_results = state.search_queries,
                  !.search_errors = errors]

\* len(set(r.get('source_type') for r in search_results))
SourceTypes(state) ==
    (IF state.search_errors > 0 THEN 1 ELSE 0) +
    (IF state.search_results - state.search_errors > 0 THEN 1 ELSE 0)

\* analyze_findings, the LLM's text holding `findings` "- " lines under
\* "关键发现：" and a summary longer than 200 characters or not.
AnalyzeFindings(state, findings, long) ==
    [state EXCEPT !.key_findings = Min(findings, 5),
                  !.summary_long = long,
                  !.credibility_scores =
                      [overall_num |-> IF state.search_results > 0
                                       THEN state.search_results - state.search_errors
                                       ELSE 0,
                       overall_den |-> IF state.search_results > 0
                                       THEN state.search_results ELSE 1,
                       source_diversity |-> IF SourceTypes(state) > 1 THEN 8 ELSE 5,
                       information_depth |-> IF long THEN 7 ELSE 4]]

\* sum(quality_factors) / len(quality_factors) as a fraction: the five factors
\* over the common denominator 10 * overall_den, divided by 5.
QualityNum(state) ==
    LET c == state.credibility_scores IN
    10 * c.overall_num
      + c.overall_den * (c.source_diversity + c.information_depth
                         + 2 * state.key_findings + state.research_notes)

QualityDen(state) == 50 * state.credibility_scores.overall_den

\* quality_score < 0.7
BelowThreshold(num, den) == 10 * num < 7 * den

\* improvement_suggestions of verify_quality
Suggestions(state) ==
    LET c == state.credibility_scores IN
    (IF 10 * c.overall_num < 6 * c.overall_den THEN {"MORE_SOURCES"} ELSE {}) \cup
    (IF state.key_findings < 3 THEN {"MORE_FINDINGS"} ELSE {}) \cup
    (IF state.research_notes < 5 THEN {"MORE_DETAIL"} ELSE {})

\* verify_quality
VerifyQuality(state) ==
    LET num == QualityNum(state)
        den == QualityDen(state) IN
    IF BelowThreshold(num, den)
    THEN [state EXCEPT !.quality_num = num, !.quality_den = den,
                       !.improvement_suggestions = Suggestions(state),
                       !.verification_status = FALSE]
    ELSE [state EXCEPT !.quality_num = num, !.quality_den = den,
                       !.verification_status = TRUE]

\* improve_research, the LLM answering with `lines` non-empty lines.
ImproveResearch(state, lines) ==
    [state EXCEPT !.retry_count = @ + 1,
                  !.search_queries = @ + Min(lines, 3)]

ShouldImproveOffByOne(state) ==
    IF ~state.verification_status /\ state.retry_count <= state.max_retries
    THEN "improve"
    ELSE "generate_report"

\* should_improve_or_continue
ShouldImproveOrContinue(state) ==
    IF ~state.verification_status /\ state.retry_count < state.max_retries
    THEN "improve"
    ELSE "generate_report"

\* generate_report
GenerateReportState(state) == [state EXCEPT !.final_report = TRUE]

InitResearch ==
    /\ caller = "research"
    /\ apiKey = "unset"
    /\ NoEnvFile
    /\ modelLoads = TRUE
    /\ netUp = FALSE
    /\ provider = "deepseek"
    /\ dataDir = NoDirectory
    /\ priorStore = [exists |-> FALSE, items |-> <<>>]
    /\ simA = <<>>
    /\ simB = <<>>
    /\ CliIdle
    /\ AgentIdle
    /\ Quiescent
    /\ testPc = "na"
    /\ WfIdle
    /\ rPc = "initialize"
    /\ \E depth \in Depths : rState = InitialResearchState(depth)
    /\ rSteps = <<>>

ResearchFrame == UNCHANGED <<ragVars, cliVars, agentVars, wfVars>>

\* node initialize, edge initialize -> search; the LLM call may raise, which
\* leaves app.invoke.
Initialize ==
    /\ rPc = "initialize"
    /\ rSteps' = <<"initialization">>
    /\ \/ \E lines \in 0..MaxLines :
            /\ rState' = InitializeResearch(rState, lines)
            /\ rPc' = "search"
       \/ /\ rState' = rState
          /\ rPc' = "raised"
    /\ ResearchFrame

\* node search, edge search -> analyze
Search ==
    /\ rPc = "search"
    /\ rSteps' = Append(rSteps, "searching")
    /\ \E errors \in 0..Min(rState.search_queries, MaxErrors) :
         rState' = ConductSearch(rState, errors)
    /\ rPc' = "analyze"
    /\ ResearchFrame

\* node analyze, edge analyze -> verify
Analyze ==
    /\ rPc = "analyze"
    /\ rSteps' = Append(rSteps, "analysis")
    /\ \/ \E findings \in 0..MaxFindingLines, long \in BOOLEAN :
            /\ rState' = AnalyzeFindings(rState, findings, long)
            /\ rPc' = "verify"
       \/ /\ rState' = rState
          /\ rPc' = "raised"
    /\ ResearchFrame

\* node verify, conditional edges by should_improve_or_continue
Verify ==
    /\ rPc = "verify"
    /\ rSteps' = Append(rSteps, "verification")
    /\ rState' = VerifyQuality(rState)
    /\ rPc' = ShouldImproveOrContinue(rState')
    /\ ResearchFrame

\* node improve, edge improve -> search
Improve ==
    /\ rPc = "improve"
    /\ rSteps' = Append(rSteps, "improvement")
    /\ \/ \E lines \in 0..MaxLines :
            /\ rState' = ImproveResearch(rState, lines)
            /\ rPc' = "search"
       \/ /\ rState' = [rState EXCEPT !.retry_count = @ + 1]
          /\ rPc' = "raised"
    /\ ResearchFrame

\* node generate_report, edge generate_report -> END
GenerateReport ==
    /\ rPc = "generate_report"
    /\ rSteps' = Append(rSteps, "reporting")
    /\ \/ /\ rState' = GenerateReportState(rState)
          /\ rPc' = "END"
       \/ /\ rState' = rState
          /\ rPc' = "raised"
    /\ ResearchFrame

NextResearch ==
    \/ Initialize
    \/ Search
    \/ Analyze
    \/ Verify
    \/ Improve
    \/ GenerateReport

\* app.invoke runs the graph to its end: a node that can execute does.
SpecResearch == InitResearch /\ [][NextResearch]_vars /\ WF_vars(NextResearch)

(* ------------------------------- claims ------------------------------- *)
CallIds == 1..Len(results)

\* C1: in every call of query(), generate_rag_response is invoked (exactly
\* once) if and only if the LLM is enabled and retrieval returned at least one
\* result; used_context is true exactly then, and otherwise it is false with
\* generation_time = 0 and no LLM call.
C1_GenerationIffLlmAndRetrieval ==
    \A i \in CallIds :
        LET shouldGenerate == calls[i].llm_enabled /\ calls[i].retrieved # <<>>
        IN /\ calls[i].llm_calls = (IF shouldGenerate THEN 1 ELSE 0)
           /\ results[i].used_context = shouldGenerate
           /\ ~results[i].used_context =>
                 results[i].generation_time = 0 /\ calls[i].llm_calls = 0

C1_Witness ==
    /\ lastOp = "query"
    /\ Len(results) = 1
    /\ results[1].used_context
    /\ calls[1].llm_calls = 1
    /\ calls[1].retrieved # <<>>

\* C2: whenever the provider is unreachable while query() runs and retrieval
\* found at least one document, the RAGResult has non-empty sources and
\* used_context = false.
C2_UnreachableProviderNotUsedContext ==
    \A i \in CallIds :
        (~calls[i].up /\ calls[i].retrieved # <<>>) =>
            (results[i].sources # <<>> /\ ~results[i].used_context)

\* C3: whatever the outcome of generation, query() returns normally and
\* RAGResult.sources holds exactly the documents search_with_scores returned,
\* one record per document, in the same order.
C3_SourcesAreRetrieval ==
    /\ Len(results) = Len(calls)
    /\ lastOp # "none" => error = None
    /\ \A i \in CallIds :
          /\ Len(results[i].sources) = Len(calls[i].retrieved)
          /\ \A j \in 1..Len(calls[i].retrieved) :
                /\ results[i].sources[j].content = calls[i].retrieved[j].doc
                /\ results[i].sources[j].similarity = calls[i].retrieved[j].score

C3_Witness ==
    /\ lastOp = "query"
    /\ Len(results) = 1
    /\ results[1].answer = ApiFailure
    /\ Len(results[1].sources) >= 2

\* C4: when generation is skipped, the answer names the reason: the "LLM not
\* configured" sentinel when the LLM is disabled, the distinct "no relevant
\* documents found" sentinel when the LLM is enabled and retrieval is empty.
C4_SentinelNamesReason ==
    /\ SentinelNoDocs # SentinelNoLLM
    /\ \A i \in CallIds :
          ~results[i].used_context =>
              /\ ~calls[i].llm_enabled => results[i].answer = SentinelNoLLM
              /\ (calls[i].llm_enabled /\ calls[i].retrieved = <<>>) =>
                    results[i].answer = SentinelNoDocs

\* The states of the orchestrator, read off its fields.
EmbeddingReady == embeddings
StoreReady == vector_store # None
LlmChecked == connTest # "none"

\* C5 as stated: construction walks uninitialized -> embedding_ready ->
\* store_ready -> llm_checked -> ready, the collection being created before
\* the LLM connection check.
C5_StoreReadyBeforeLlmChecked ==
    /\ StoreReady => EmbeddingReady
    /\ LlmChecked => StoreReady
    /\ Ready => (EmbeddingReady /\ StoreReady /\ LlmChecked)

\* C5 (amended): construction walks uninitialized -> embedding_ready ->
\* llm_checked -> store_ready -> ready: the LLM step is performed before the
\* collection is created, and ready is reached only after all earlier steps.
C5_LlmCheckedBeforeStoreReady ==
    /\ LlmChecked => EmbeddingReady
    /\ StoreReady => LlmChecked
    /\ Ready => (EmbeddingReady /\ StoreReady /\ LlmChecked)

C5_Witness == Ready /\ connTest = "passed" /\ StoreReady

\* C6: if test_connection returns false at construction, construction still
\* completes with the vector store created, llm stays None after every later
\* query / batch_query, and every query returns its retrieval results with
\* used_context = false.
C6_FailedTestDisablesGeneration ==
    connTest = "failed" =>
        /\ error = None
        /\ llm = None
        /\ Constructed => (StoreReady /\ persistDirExists /\ createdDocs # <<>>)
        /\ \A i \in CallIds :
              /\ ~results[i].used_context
              /\ calls[i].llm_calls = 0
              /\ Len(results[i].sources) = Len(calls[i].retrieved)

C6_Witness ==
    /\ connTest = "failed"
    /\ Ready
    /\ lastOp = "batch"
    /\ ~batchActive
    /\ Len(results) >= 1
    /\ results[1].sources # <<>>
    /\ ~results[1].used_context

\* C7: with llm_provider 'deepseek' and no DEEPSEEK_API_KEY, construction
\* raises to the caller and never reaches ready; no client is created with a
\* defaulted key.
C7_MissingKeyFailsFast ==
    (Lower(provider) = "deepseek" /\ ~apiKeySet) =>
        /\ ~Constructed
        /\ llm = None
        /\ connTest = "none"
        /\ error \in {None, IF modelLoads THEN "ValueError" ELSE "OSError"}
        /\ lastOp = "none"

C7_Witness ==
    /\ Lower(provider) = "deepseek"
    /\ ~apiKeySet
    /\ error = "ValueError"
    /\ embeddings

\* C8: when DEEPSEEK_API_KEY is not set once setup_environment has
\* returned, test_complete_rag_system (the embedding model loading) still
\* constructs the system, runs its single and batch queries retrieval-only,
\* and returns success.
C8_NoKeyRunSucceeds ==
    (caller = "main" /\ ~apiKeySet /\ testPc = "done" /\ modelLoads
        /\ ~LoadEnvironment(apiKey, envFile, dotenvInstalled).raised) =>
        /\ testReturn = "success"
        /\ Constructed
        /\ lastOp = "batch"
        /\ \A i \in CallIds : ~results[i].used_context

\* C9: batch_query returns one RAGResult per question in input order, and
\* each question's retrieval and generation finish before the retrieval of
\* the next question starts.
C9_BatchInOrderNoInterleaving ==
    lastOp = "batch" =>
        /\ Len(results) <= Len(batchInput)
        /\ ~batchActive => Len(results) = Len(batchInput)
        /\ \A i \in CallIds : results[i].query = batchInput[i]
        /\ \A a, b \in 1..Len(events) :
              a < b =>
                 /\ events[a].idx <= events[b].idx
                 /\ events[a].idx = events[b].idx =>
                       (events[a].op = "retrieve" /\ events[b].op = "generate")
        /\ \A i \in CallIds : \E a \in 1..Len(events) :
              events[a] = [op |-> "retrieve", idx |-> i]

C9_Witness ==
    /\ lastOp = "batch"
    /\ ~batchActive
    /\ Len(batchInput) = 2
    /\ batchInput[1] # batchInput[2]
    /\ Len(results) = 2
    /\ results[1].used_context
    /\ results[2].used_context

\* The documents of every file of a supported type that can be read, at any
\* depth of the directory.
ReadableDocs(dir) == LoadTextDocuments(dir) \o LoadOtherDocuments(dir)

\* C10: the synthetic example documents are substituted if and only if no
\* document of any supported type is found in the document directory, and the
\* document list passed to vector-store creation is never empty.
C10_FallbackIffNoDocumentOfAnyType ==
    StoreReady =>
        /\ (createdDocs = CreateTestDocuments) <=> (ReadableDocs(dataDir) = <<>>)
        /\ createdDocs # <<>>

\* No file of a supported type is in the document directory.
DirectoryEmpty ==
    \/ ~dataDir.exists
    \/ /\ dataDir.txt = 0 /\ dataDir.sub = 0
       /\ dataDir.other = 0 /\ dataDir.otherSub = 0
       /\ ~dataDir.bad

\* C11: with an empty document directory, construction falls back to the 5
\* synthetic example documents and, once the store is created, the collection
\* holds exactly 5 items.
C11_EmptyDirectoryGivesFiveItems ==
    (StoreReady /\ DirectoryEmpty) =>
        /\ createdDocs = CreateTestDocuments
        /\ Len(createdDocs) = 5
        /\ Len(collection) = 5

\* C12: construction opens a persisted store via load and creates the store
\* only when load finds none; the not-found error never leaves construction.
C12_LoadsExistingStoreElseCreates ==
    /\ error # "FileNotFoundError"
    /\ StoreReady =>
          IF priorStore.exists
          THEN mgrOp = "load_existing_store" /\ collection = priorStore.items
          ELSE mgrOp = "create_vector_store" /\ collection = createdDocs

\* C17: when one file cannot be read, only that file is skipped: the documents
\* of every readable file are still returned by load_all_documents, and no
\* error leaves load_all_documents or orchestrator construction.
C17_OneBadFileSkippedOnly ==
    /\ loaderOut.called => loaderOut.docs = ReadableDocs(dataDir)
    /\ error # "LoadError"

\* C13: on a handle on which neither create nor load has succeeded, both
\* searches fail with the not-initialized error and leave the handle and the
\* persisted store as they were.
C13_SearchBeforeInitFailsUnchanged ==
    [][(/\ handleHist = "fresh"
        /\ \E q \in 1..MaxQ, k \in 1..MaxK :
               MgrSimilaritySearch(q, k) \/ MgrSearchWithScores(q, k))
       => /\ mgrError' = "ValueError"
          /\ mgrResult' = NoResult
          /\ vector_store' = None
          /\ UNCHANGED <<persistDirExists, collection, handleHist>>]_vars

C13_Witness ==
    /\ handleHist = "fresh"
    /\ mgrOp = "search_with_scores"
    /\ mgrError = "ValueError"
    /\ persistDirExists
    /\ collection # <<>>

\* C14: after delete() the directory is gone and, until create or load is
\* called again, similarity_search, search_with_scores, clear_store and
\* get_store_info all fail with the not-initialized error.
C14_DeletedHandleFailsEveryOperation ==
    handleHist = "deleted" =>
        /\ ~persistDirExists
        /\ vector_store = None
        /\ mgrOp \in {"similarity_search", "search_with_scores", "clear_store",
                      "get_store_info"} => mgrError = "ValueError"

\* C15: clear() on an initialized handle empties the collection and leaves the
\* directory and the handle in place, so that a search then finds nothing.
C15_ClearEmptiesCollection ==
    (caller = "store" /\ mgrOp = "clear_store" /\ vector_store # None
        /\ handleHist # "orphaned") =>
        /\ mgrError = None
        /\ collection = <<>>
        /\ persistDirExists
        /\ \A q \in 1..MaxQ, k \in 1..MaxK : SearchWithScores(collection, q, k) = <<>>

\* C16: load fails with the not-found error when the persist directory does
\* not exist, and then leaves the handle's vector_store as it was.
C16_LoadMissingDirFailsUnchanged ==
    [][(MgrLoad /\ ~persistDirExists)
       => /\ mgrError' = "FileNotFoundError"
          /\ vector_store' = vector_store
          /\ UNCHANGED <<persistDirExists, collection, handleHist>>]_vars

C16_Witness ==
    /\ mgrOp = "load_existing_store"
    /\ mgrError = "FileNotFoundError"
    /\ handleHist = "orphaned"
    /\ vector_store = "chroma"
    /\ collection # <<>>
    /\ ~persistDirExists

\* C18: the sources of every RAGResult are ranked by descending similarity:
\* the 'similarity' of sources[j] is at least that of sources[j+1].
C18_SourcesByDescendingSimilarity ==
    \A i \in CallIds :
        \A j \in 1..(Len(results[i].sources) - 1) :
            results[i].sources[j].similarity >= results[i].sources[j + 1].similarity

\* C19: euclidean_distance, manhattan_distance and dot_product fail with a
\* dimension-mismatch error for every pair of vectors of differing lengths,
\* a vector of length 1 included, and return a number only for equal lengths.
C19_DifferingLengthsAlwaysFail ==
    simOp \in {"euclidean_distance", "manhattan_distance", "dot_product"} =>
        /\ Len(simA) # Len(simB) => simOut.kind = "ValueError"
        /\ simOut.kind = "number" => Len(simA) = Len(simB)

AllZero(v) == \A i \in 1..Len(v) : v[i] = 0

\* C20: cosine_similarity of equal-length vectors of which one is all-zero
\* either raises a division-by-zero error or returns 0.0, never NaN; for
\* non-zero vectors the result lies in [-1, 1].
C20_ZeroVectorNeverNaN ==
    (simOp = "cosine_similarity" /\ Len(simA) = Len(simB)) =>
        IF AllZero(simA) \/ AllZero(simB)
        THEN \/ simOut.kind = "ZeroDivisionError"
             \/ simOut.kind = "number" /\ simOut.num = 0
        ELSE /\ simOut.kind = "number"
             /\ simOut.num * simOut.num <= simOut.den

\* What each provider method hands back when the chat API cannot be reached.
FailSoft(up, reply) ==
    /\ Chat(up, reply) = ApiFailure
    /\ Generate(up, reply) = ApiFailure
    /\ GenerateRagResponse(up, reply) = ApiFailure

\* C21: generate, chat and generate_rag_response never raise on a network or
\* authentication error of the chat API: they return the failure string, and
\* query() delivers it as the answer of the RAGResult.
C21_ProviderFailSoft ==
    /\ \A reply \in Replies : FailSoft(FALSE, reply)
    /\ \A i \in CallIds :
          (calls[i].llm_calls = 1 /\ ~calls[i].up) =>
              /\ results[i].answer = ApiFailure
              /\ error = None

C21_Witness ==
    /\ lastOp = "batch"
    /\ \E i \in CallIds :
          /\ calls[i].llm_calls = 1
          /\ ~calls[i].up
          /\ results[i].answer = ApiFailure
    /\ \E i \in CallIds : calls[i].up /\ results[i].answer \in Replies

\* The tests --mode selects.
RetrievalSelected == mode \in {"retrieval", "both"}
CompleteSelected == mode \in {"complete", "both"}

\* C22: main.py exits with 0 exactly when every test selected by --mode
\* succeeded and with 1 otherwise; in mode both a failed retrieval test does
\* not keep the complete test from running, and the exit code is still 1.
C22_ExitCodeIffAllSelectedSucceeded ==
    cliPc = "done" =>
        /\ exitCode \in {0, 1}
        /\ exitCode = 0 <=>
              /\ RetrievalSelected => retrievalReturn = "success"
              /\ CompleteSelected => testReturn = "success"
        /\ RetrievalSelected <=> retrievalReturn \in {"success", "failure"}
        /\ CompleteSelected <=> testReturn \in {"success", "failure"}
        /\ (mode = "both" /\ retrievalReturn = "failure") =>
              testReturn \in {"success", "failure"} /\ exitCode = 1

C22_Witness ==
    /\ cliPc = "done"
    /\ mode = "both"
    /\ retrievalReturn = "success"
    /\ testReturn = "failure"
    /\ exitCode = 1

C22_WitnessRetrievalFailed ==
    /\ cliPc = "done"
    /\ mode = "both"
    /\ retrievalReturn = "failure"
    /\ testReturn = "success"
    /\ exitCode = 1

\* C23: when the LLM call raises during assess_level, assess_level raises an
\* exception whose message holds "水平评估失败" and returns no assessment.
C23_AssessLevelRaisesOnLlmError ==
    (agentOp = "assess_level" /\ agentOut.llm = "exception") =>
        /\ agentOut.kind = "raised"
        /\ agentOut.msg = FailurePrefix("assess_level")

\* An entry exists exactly when something is stored in it.
EntryHolds(e) ==
    \/ e.assessment
    \/ e.learning_plan
    \/ e.progress_report
    \/ e.vocabulary_sessions + e.conversation_sessions + e.grammar_sessions > 0

\* C24: get_user_profile(u) is None for a user with no stored data; after
\* clear_user_data(u) it is None whatever was stored before, every other
\* user's data is as it was, and for an unknown user nothing changes.
C24_ClearedProfileIsNone ==
    /\ [](\A u \in Users :
             /\ user_sessions[u].present <=> EntryHolds(user_sessions[u])
             /\ GetUserProfile(user_sessions, u).none <=> ~EntryHolds(user_sessions[u]))
    /\ [](agentOp = "get_user_profile" =>
             (agentOut.msg = None <=> ~EntryHolds(user_sessions[agentUser])))
    /\ [][ClearData =>
             LET u == agentUser'
             IN /\ GetUserProfile(user_sessions', u).none
                /\ \A v \in Users \ {u} : user_sessions'[v] = user_sessions[v]
                /\ ~user_sessions[u].present => user_sessions' = user_sessions]_vars

C24_Witness ==
    /\ agentOp = "get_user_profile"
    /\ agentUser = "u1"
    /\ agentOut.msg = None
    /\ clearLog = [user |-> "u1", deleted |-> TRUE, kept |-> {"u2"}]
    /\ EntryHolds(user_sessions["u2"])
    /\ agentPending = NoPending

\* C29: safe_api_call never raises: on a timeout, a cancellation or any
\* exception of the LLM call it returns None, otherwise the response; the
\* operation that called it then returns, with its fallback data after None.
C29_SafeApiCallNeverRaises ==
    agentOut.llm # "not_called" =>
        LET r == SafeApiCall(agentOut.llm, console)
        IN /\ ~r.raised
           /\ r.value = (IF agentOut.llm \in Responses THEN agentOut.llm ELSE None)
           /\ r.value = None => (agentOut.kind = "returned" /\ agentOut.fallback)

(* C25: run() with an empty or whitespace-only technology calls neither   *)
(* the research agent nor the learning agent's plan generation, never      *)
(* returns status "completed", and reports the validation error of         *)
(* validate_input.                                                          *)
C25_EmptyTechnologyReportsValidationError ==
    (wfPc # "na" /\ Strip(technology) = "") =>
        /\ wfCalls \cap {"research_technology", "generate_learning_plan"} = {}
        /\ wfPc = "returned" =>
             /\ wfResult.status # "completed"
             /\ wfResult.error = "TECHNOLOGY_NAME_REQUIRED"

(* C26: after a node returned status "error" the next node executed is     *)
(* handle_error, and run() returns what handle_error leaves: status        *)
(* "failed" with that node's error.                                        *)
C26_ErrorRoutesToHandleError ==
    \A i \in 1..Len(wfTrace) :
        wfTrace[i].status = "error" =>
            /\ i < Len(wfTrace) => wfTrace[i + 1].node = "handle_error"
            /\ wfPc = "returned" =>
                 wfResult = RunResult(HandleErrorState(
                     [wfState EXCEPT !.error = wfTrace[i].error, !.status = "error"]))

\* Number of times a step appears in completed_steps.
RECURSIVE CountStep(_, _)
CountStep(steps, step) ==
    IF steps = <<>> THEN 0
    ELSE (IF Head(steps) = step THEN 1 ELSE 0) + CountStep(Tail(steps), step)

(* C27: a run of the research graph in which every node call returns ends  *)
(* at END with generate_report as its last step; a step from verify goes   *)
(* to improve only with verification_status false and retry_count below    *)
(* max_retries; an improve step that returns adds exactly 1 to             *)
(* retry_count; improve executes at most max_retries = 2 times and         *)
(* verification at most max_retries + 1 times.                             *)
C27_ResearchGraphTerminates ==
    /\ <>(rPc \in {"END", "raised"})
    /\ [](rPc = "END" => rSteps[Len(rSteps)] = "reporting")
    /\ [](/\ rState.max_retries = 2
          /\ CountStep(rSteps, "improvement") <= rState.max_retries
          /\ CountStep(rSteps, "searching") <= rState.max_retries + 1
          /\ CountStep(rSteps, "analysis") <= rState.max_retries + 1
          /\ CountStep(rSteps, "verification") <= rState.max_retries + 1)
    /\ [][Verify =>
            /\ rPc' \in {"improve", "generate_report"}
            /\ rPc' = "improve" <=>
                 (~rState'.verification_status
                    /\ rState'.retry_count < rState'.max_retries)]_vars
    /\ [][Improve => rState'.retry_count = rState.retry_count + 1]_vars

\* The report was generated after max_retries improve rounds.
C27_Witness ==
    /\ rPc = "END"
    /\ rState.final_report
    /\ rState.retry_count = rState.max_retries
    /\ CountStep(rSteps, "improvement") = 2
    /\ CountStep(rSteps, "verification") = 3

(* C28: when every search succeeded and the analysis gave 5 key findings   *)
(* and a summary longer than 200 characters, verify_quality computes       *)
(* quality_score >= 0.7 and sets verification_status, and the run goes     *)
(* from verify to generate_report with retry_count = 0.                    *)
C28_DirectPathPassesVerification ==
    (/\ rPc \in {"improve", "generate_report"}
     /\ rSteps[Len(rSteps)] = "verification"
     /\ rState.search_results > 0
     /\ rState.search_errors = 0
     /\ rState.key_findings = 5
     /\ rState.summary_long) =>
        /\ ~BelowThreshold(rState.quality_num, rState.quality_den)
        /\ rState.verification_status
        /\ rState.retry_count = 0 => rPc = "generate_report"

(* C30: when the persist directory is empty before the run, or holds what *)
(* an earlier construction over the same documents left, the collection    *)
(* after construction has exactly as many items as there are documents.    *)
C30_StoreCreationIdempotent ==
    (/\ StoreReady
     /\ createdDocs # <<>>
     /\ priorStore.items \in {<<>>, createdDocs}) =>
        Len(collection) = Len(createdDocs)

====
